---- MODULE Spec2Model ----
(***************************************************************************)
(* Model of excel-to-ppt-explainer: the openpyxl backend                   *)
(* (auto_generate_ppt_openpyxl.py) and, where the two differ, the xlwings  *)
(* backend (auto_generate_ppt_xlwings_final_v2.py).                        *)
(*                                                                         *)
(* Conventions.  A Python str is a sequence of one-character strings, so   *)
(* that find, replace and the regular expressions are computed character   *)
(* by character.  Positions are 1-based (Python's index + 1); a search     *)
(* that finds nothing yields 0 (Python's -1).  A Python None in a place    *)
(* that holds a str is the one-element sequence None, which equals no      *)
(* sequence of characters.  A cell value is a record [t, n, s]: None, a    *)
(* number or a str.                                                        *)
(***************************************************************************)
EXTENDS Integers, Sequences, FiniteSets, TLC

VARIABLES pc, inp, run, ref, call

vars == <<pc, inp, run, ref, call>>

(***************************************************************************)
(* Strings and values                                                      *)
(***************************************************************************)
None == <<"None">>

Falsy(s) == s = None \/ s = <<>>

Range(seq) == {seq[k] : k \in 1..Len(seq)}

Min(S) == CHOOSE x \in S : \A y \in S : x <= y

Max(S) == CHOOSE x \in S : \A y \in S : x >= y

RECURSIVE Concat(_)
Concat(seqs) == IF seqs = <<>> THEN <<>> ELSE Head(seqs) \o Concat(Tail(seqs))

RECURSIVE SeqSum(_)
SeqSum(seq) == IF seq = <<>> THEN 0 ELSE Head(seq) + SeqSum(Tail(seq))

\* str.replace(ch, "")
Remove(s, ch) == SelectSeq(s, LAMBDA c : c # ch)

HasAt(s, t, p) == p >= 1 /\ p + Len(t) - 1 <= Len(s) /\ SubSeq(s, p, p + Len(t) - 1) = t

\* str.find(t, i): the least position >= i where t occurs, 0 when there is none
Find(s, t, i) ==
    LET hits == {p \in i..(Len(s) + 1) : HasAt(s, t, p)}
    IN  IF hits = {} THEN 0 ELSE Min(hits)

\* list(dict.fromkeys(seq)): first-seen order, no duplicates
RECURSIVE Dedupe(_)
Dedupe(seq) ==
    IF seq = <<>> THEN <<>>
    ELSE LET front == Dedupe(SubSeq(seq, 1, Len(seq) - 1))
             last == seq[Len(seq)]
         IN  IF last \in Range(front) THEN front ELSE Append(front, last)

NoDuplicates(seq) == \A k1, k2 \in 1..Len(seq) : seq[k1] = seq[k2] => k1 = k2

DigitChars == <<"0", "1", "2", "3", "4", "5", "6", "7", "8", "9">>

\* str(n) of a non-negative int
RECURSIVE IntToStr(_)
IntToStr(n) ==
    IF n < 10 THEN <<DigitChars[n + 1]>>
    ELSE IntToStr(n \div 10) \o <<DigitChars[(n % 10) + 1]>>

NoneVal == [t |-> "none", n |-> 0, s |-> <<>>]
NumVal(k) == [t |-> "num", n |-> k, s |-> <<>>]
StrVal(x) == [t |-> "str", n |-> 0, s |-> x]

\* val in (None, "")
IsBlank(val) == val.t = "none" \/ (val.t = "str" /\ val.s = <<>>)

\* str(val) of a cell value
PyStr(val) ==
    IF val.t = "none" THEN <<"N", "o", "n", "e">>
    ELSE IF val.t = "num" THEN IntToStr(val.n)
    ELSE val.s

(***************************************************************************)
(* Worksheet cells.  A sheet maps <<row, column>> to a cell; value is the  *)
(* cell in the computed-value view (data_only=True), data_type and fvalue  *)
(* are the cell in the formula view.  A cell outside the map is empty.     *)
(***************************************************************************)
EmptyCell == [value |-> NoneVal, data_type |-> "n", fvalue |-> NoneVal]

FormulaViewCell(sht, r, c) ==
    IF <<r, c>> \in DOMAIN sht THEN sht[<<r, c>>] ELSE EmptyCell

StartsWithEq(text) == Len(text) >= 1 /\ text[1] = "="

\* get_formula_str: None unless the cell holds a formula; a formula always
\* starts with "="
GetFormulaStr(cell) ==
    IF cell.data_type = "f"
    THEN LET text == IF cell.fvalue.t = "none" THEN <<>> ELSE PyStr(cell.fvalue)
         IN  IF StartsWithEq(text) THEN text ELSE <<"=">> \o text
    ELSE IF cell.fvalue.t = "str" /\ StartsWithEq(cell.fvalue.s) THEN cell.fvalue.s
    ELSE None

FormulaAt(sht, r, c) == GetFormulaStr(FormulaViewCell(sht, r, c))

(***************************************************************************)
(* Formula backfill of the summary-collection pass.  A loop state is       *)
(* [f, rr, reads]: the formula found so far, the next row to read and the  *)
(* rows read so far.                                                       *)
(***************************************************************************)
\* f = get_formula_str(ws_formula.cell(row=r, column=c_idx))
OwnFormula(sht, r, c_idx) == [f |-> FormulaAt(sht, r, c_idx), rr |-> r, reads |-> <<r>>]

\* a variant of the upward loop's condition that also reads the header row
UpCondFromHeader(ls, hdr_row) == ls.rr >= hdr_row /\ Falsy(ls.f)

\* while rr >= hdr_row + 1 and not f
UpCond(ls, hdr_row) == ls.rr >= hdr_row + 1 /\ Falsy(ls.f)

\* f = get_formula_str(ws_formula.cell(row=rr, column=c_idx)); rr -= 1
UpBody(ls, sht, c_idx) ==
    [f |-> FormulaAt(sht, ls.rr, c_idx), rr |-> ls.rr - 1, reads |-> Append(ls.reads, ls.rr)]

\* while rr <= last_row_in_block and not f
DownCond(ls, last_row_in_block) == ls.rr <= last_row_in_block /\ Falsy(ls.f)

\* f = get_formula_str(ws_formula.cell(row=rr, column=c_idx)); rr += 1
DownBody(ls, sht, c_idx) ==
    [f |-> FormulaAt(sht, ls.rr, c_idx), rr |-> ls.rr + 1, reads |-> Append(ls.reads, ls.rr)]

RECURSIVE RunUp(_, _, _, _)
RunUp(ls, sht, c_idx, hdr_row) ==
    IF UpCond(ls, hdr_row) THEN RunUp(UpBody(ls, sht, c_idx), sht, c_idx, hdr_row) ELSE ls

RECURSIVE RunDown(_, _, _, _)
RunDown(ls, sht, c_idx, last_row_in_block) ==
    IF DownCond(ls, last_row_in_block)
    THEN RunDown(DownBody(ls, sht, c_idx), sht, c_idx, last_row_in_block) ELSE ls

\* the formula of summary cell (r, c_idx) after backfill, with the rows read
BackfillFormula(sht, r, c_idx, hdr_row, last_row_in_block) ==
    LET own == OwnFormula(sht, r, c_idx)
    IN  IF ~Falsy(own.f) THEN own
        ELSE LET up == RunUp([own EXCEPT !.rr = r - 1], sht, c_idx, hdr_row)
             IN  IF ~Falsy(up.f) THEN up
                 ELSE RunDown([up EXCEPT !.rr = r + 1], sht, c_idx, last_row_in_block)

(***************************************************************************)
(* Summary table scaffold: column widths and row heights                   *)
(***************************************************************************)
\* pptx.util.Inches(tenths / 10), in EMU
InchesTenths(tenths) == (tenths * 914400) \div 10

\* Inches(0.4 * table_font_pt / 18) in text mode, else Inches(0.4)
BaseRowHeight(link_mode, table_font_pt) ==
    IF link_mode = "text" THEN (4 * table_font_pt * 914400) \div 180 ELSE InchesTenths(4)

\* a variant that drops the remainder of the division
ColWidthsNoRemainder(total_w, sum_cols) ==
    [j \in 1..sum_cols |-> total_w \div sum_cols]

\* col_widths = [base_w] * sum_cols; col_widths[-1] = base_w + remainder
ColWidths(total_w, sum_cols) ==
    LET base_w == total_w \div sum_cols
        remainder == total_w - base_w * sum_cols
    IN  [j \in 1..sum_cols |-> IF j = sum_cols THEN base_w + remainder ELSE base_w]

\* table.rows[i].height = int(base_row_height)
RowHeights(base_row_height, sum_rows) == [i \in 1..sum_rows |-> base_row_height]

\* the height add_table is asked for
RequestedTableHeight(base_row_height, sum_rows) == base_row_height * sum_rows

(***************************************************************************)
(* parse_structured_columns                                                *)
(***************************************************************************)
\* the inner while loop: from position j, copy into buf up to the closing
\* bracket; "]]" is one literal "]"
RECURSIVE ScanName(_, _, _)
ScanName(s, j, buf) ==
    IF j > Len(s) THEN [j |-> j, buf |-> buf]
    ELSE IF s[j] = "]"
         THEN IF j + 1 <= Len(s) /\ s[j + 1] = "]"
              THEN ScanName(s, j + 2, Append(buf, "]"))
              ELSE [j |-> j + 1, buf |-> buf]
         ELSE ScanName(s, j + 1, Append(buf, s[j]))

\* a variant that keeps the apostrophes of the name
ColumnNameKeepsQuotes(buf) == buf

\* name = ''.join(buf).replace("'", "")
ColumnName(buf) == Remove(buf, "'")

\* the outer while loop: the next occurrence of target at or after i
RECURSIVE ScanColumns(_, _, _, _)
ScanColumns(s, target, i, cols) ==
    LET start == Find(s, target, i)
    IN  IF start = 0 THEN cols
        ELSE LET r == ScanName(s, start + Len(target), <<>>)
                 name == ColumnName(r.buf)
             IN  ScanColumns(s, target, r.j,
                             IF name \in Range(cols) THEN cols ELSE Append(cols, name))

ParseStructuredColumns(formula, table_name) ==
    IF Falsy(formula) THEN <<>>
    ELSE ScanColumns(formula, table_name \o <<"[">>, 1, <<>>)

(***************************************************************************)
(* extract_table_names                                                     *)
(***************************************************************************)
Letters ==
    <<"A", "B", "C", "D", "E", "F", "G", "H", "I", "J", "K", "L", "M",
      "N", "O", "P", "Q", "R", "S", "T", "U", "V", "W", "X", "Y", "Z">>

LowerLetters ==
    <<"a", "b", "c", "d", "e", "f", "g", "h", "i", "j", "k", "l", "m",
      "n", "o", "p", "q", "r", "s", "t", "u", "v", "w", "x", "y", "z">>

\* the characters of [A-Za-z0-9_]
AlnumChars == Range(Letters) \cup Range(LowerLetters) \cup Range(DigitChars) \cup {"_"}

\* the start of the longest run of [A-Za-z0-9_] that ends at position e
RECURSIVE RunStart(_, _)
RunStart(s, e) ==
    IF e >= 1 /\ s[e] \in AlnumChars THEN RunStart(s, e - 1) ELSE e + 1

\* re.findall(r"([A-Za-z0-9_]+)\[", s): every maximal run that a "[" follows
FindAllTableNames(s) ==
    LET opens == {k \in 2..Len(s) : s[k] = "[" /\ s[k - 1] \in AlnumChars}
        F[k \in 0..Len(s)] ==
            IF k = 0 THEN <<>>
            ELSE IF k \in opens THEN Append(F[k - 1], SubSeq(s, RunStart(s, k - 1), k - 1))
            ELSE F[k - 1]
    IN  F[Len(s)]

ExtractTableNames(formula) ==
    IF Falsy(formula) THEN <<>>
    ELSE Dedupe(FindAllTableNames(Remove(formula, "'")))

(***************************************************************************)
(* extract_filter_key (openpyxl backend)                                   *)
(***************************************************************************)
\* openpyxl.utils.cell.get_column_letter
RECURSIVE GetColumnLetter(_)
GetColumnLetter(idx) ==
    IF idx = 0 THEN <<>>
    ELSE GetColumnLetter((idx - 1) \div 26) \o <<Letters[((idx - 1) % 26) + 1]>>

\* the value of a cell of the computed-value view; a cell never written is empty
CellValue(sht, r, c) ==
    IF <<r, c>> \in DOMAIN sht THEN sht[<<r, c>>].value ELSE NoneVal

\* \$? at position p: the position after the optional "$"
SkipDollar(s, p) == IF p <= Len(s) /\ s[p] = "$" THEN p + 1 ELSE p

\* a variant of the cell pattern that accepts no "$" before the row number
MatchCellPatNoRowAnchor(s, p, col_letter, row_idx) ==
    LET p1 == SkipDollar(s, p)
        p2 == p1 + Len(col_letter)
        row == IntToStr(row_idx)
    IN  IF HasAt(s, col_letter, p1) /\ HasAt(s, row, p2) THEN p2 + Len(row) ELSE 0

\* cell_pat = \$?{col_letter}\$?{row_idx} matched at position p: the position
\* after the match, 0 when it does not match there
MatchCellPat(s, p, col_letter, row_idx) ==
    LET p1 == SkipDollar(s, p)
        p2 == SkipDollar(s, p1 + Len(col_letter))
        row == IntToStr(row_idx)
    IN  IF HasAt(s, col_letter, p1) /\ HasAt(s, row, p2) THEN p2 + Len(row) ELSE 0

NoMatch == [next |-> 0, col |-> None]

\* {re.escape(table_name)}\[([^\]]+?)\] matched at position p: the group is
\* the text up to the first "]", which must not be empty
MatchTableCol(s, p, table_name) ==
    LET open == p + Len(table_name)
        close == Find(s, <<"]">>, open + 1)
    IN  IF HasAt(s, table_name \o <<"[">>, p) /\ close > open + 1
        THEN [next |-> close + 1, col |-> SubSeq(s, open + 1, close - 1)]
        ELSE NoMatch

\* Table[Col] <sep> <anchor> matched at position p
MatchColThenCell(s, p, table_name, sep, col_letter, row_idx) ==
    LET tc == MatchTableCol(s, p, table_name)
    IN  IF /\ tc.next # 0
           /\ HasAt(s, sep, tc.next)
           /\ MatchCellPat(s, tc.next + Len(sep), col_letter, row_idx) # 0
        THEN tc ELSE NoMatch

\* <anchor> <sep> Table[Col] matched at position p
MatchCellThenCol(s, p, table_name, sep, col_letter, row_idx) ==
    LET e == MatchCellPat(s, p, col_letter, row_idx)
    IN  IF e # 0 /\ HasAt(s, sep, e)
        THEN MatchTableCol(s, e + Len(sep), table_name)
        ELSE NoMatch

\* pat_eq at position p: the first alternative, else the second
MatchPatEq(s, p, table_name, col_letter, row_idx) ==
    LET a == MatchColThenCell(s, p, table_name, <<"=">>, col_letter, row_idx)
    IN  IF a.next # 0 THEN a
        ELSE MatchCellThenCol(s, p, table_name, <<"=">>, col_letter, row_idx)

MatchPatFunc(s, p, table_name, col_letter, row_idx) ==
    MatchColThenCell(s, p, table_name, <<",">>, col_letter, row_idx)

MatchPatFuncRev(s, p, table_name, col_letter, row_idx) ==
    MatchCellThenCol(s, p, table_name, <<",">>, col_letter, row_idx)

\* one of the three compiled patterns matched at position p
MatchPattern(pat, s, p, table_name, col_letter, row_idx) ==
    IF pat = "pat_eq" THEN MatchPatEq(s, p, table_name, col_letter, row_idx)
    ELSE IF pat = "pat_func" THEN MatchPatFunc(s, p, table_name, col_letter, row_idx)
    ELSE MatchPatFuncRev(s, p, table_name, col_letter, row_idx)

\* pattern.search(s): the match at the leftmost position where there is one
Search(pat, s, table_name, col_letter, row_idx) ==
    LET starts == {p \in 1..Len(s) :
                      MatchPattern(pat, s, p, table_name, col_letter, row_idx).next # 0}
    IN  IF starts = {} THEN NoMatch
        ELSE MatchPattern(pat, s, Min(starts), table_name, col_letter, row_idx)

NoFilterKey == [col |-> None, value |-> NoneVal]

\* a reading that tries the function-argument form before the equality form
FirstMatchFuncFirst(m1, m2, m3) ==
    IF m2.next # 0 THEN m2 ELSE IF m1.next # 0 THEN m1 ELSE m3

\* m = pat_eq.search(s) or pat_func.search(s) or pat_func_rev.search(s)
FirstMatch(m1, m2, m3) ==
    IF m1.next # 0 THEN m1 ELSE IF m2.next # 0 THEN m2 ELSE m3

\* (col, key_value) of the match m, (None, None) without a match
FilterKeyOf(m, key_value) ==
    IF m.next # 0 THEN [col |-> Remove(m.col, "'"), value |-> key_value]
    ELSE NoFilterKey

\* the searches on the formula s, which has no spaces
SearchFilterKey(s, table_name, col_letter, row_idx, key_value) ==
    FilterKeyOf(FirstMatch(Search("pat_eq", s, table_name, col_letter, row_idx),
                           Search("pat_func", s, table_name, col_letter, row_idx),
                           Search("pat_func_rev", s, table_name, col_letter, row_idx)),
                key_value)

ExtractFilterKey(formula, table_name, sht, row_idx, key_col_idx) ==
    IF Falsy(formula) THEN NoFilterKey
    ELSE SearchFilterKey(Remove(formula, " "), table_name,
                         GetColumnLetter(key_col_idx), row_idx,
                         CellValue(sht, row_idx, key_col_idx))

(***************************************************************************)
(* detect_summary_region_from_start                                        *)
(***************************************************************************)
\* the header loop: from column c, collect str(val) until a blank cell, or
\* until c - start_col > max_cols after the increment
RECURSIVE ScanHeaders(_, _, _, _, _, _)
ScanHeaders(ws, hdr_row, start_col, c, headers, max_cols) ==
    LET val == CellValue(ws, hdr_row, c)
    IN  IF IsBlank(val) THEN headers
        ELSE IF (c + 1) - start_col > max_cols THEN Append(headers, PyStr(val))
        ELSE ScanHeaders(ws, hdr_row, start_col, c + 1, Append(headers, PyStr(val)), max_cols)

\* the data-row loop: from row r, collect rows until the key cell is blank
RECURSIVE ScanDataRows(_, _, _, _)
ScanDataRows(ws, start_col, r, data_rows) ==
    IF IsBlank(CellValue(ws, r, start_col)) THEN data_rows
    ELSE ScanDataRows(ws, start_col, r + 1, Append(data_rows, r))

DetectSummaryRegionFromStart(ws, start_row, start_col, max_cols) ==
    [hdr_row |-> start_row - 1,
     headers |-> ScanHeaders(ws, start_row - 1, start_col, start_col, <<>>, max_cols),
     data_rows |-> ScanDataRows(ws, start_col, start_row, <<>>),
     start_col |-> start_col]

(***************************************************************************)
(* guess_key_col                                                           *)
(***************************************************************************)
\* re.sub(r'\\W+', ' ', s): the pattern is a backslash followed by one or
\* more "W"
RECURSIVE SkipWs(_, _)
SkipWs(s, k) == IF k <= Len(s) /\ s[k] = "W" THEN SkipWs(s, k + 1) ELSE k

RECURSIVE SubBackslashW(_, _)
SubBackslashW(s, k) ==
    IF k > Len(s) THEN <<>>
    ELSE IF s[k] = "\\" /\ SkipWs(s, k + 1) > k + 1
         THEN <<" ">> \o SubBackslashW(s, SkipWs(s, k + 1))
         ELSE <<s[k]>> \o SubBackslashW(s, k + 1)

\* str.strip() of blanks
RECURSIVE Strip(_)
Strip(s) ==
    IF s = <<>> THEN s
    ELSE IF Head(s) = " " THEN Strip(Tail(s))
    ELSE IF s[Len(s)] = " " THEN Strip(SubSeq(s, 1, Len(s) - 1))
    ELSE s

LowerChar(ch) ==
    IF \E k \in 1..26 : Letters[k] = ch
    THEN LowerLetters[CHOOSE k \in 1..26 : Letters[k] = ch]
    ELSE ch

Lower(s) == [k \in 1..Len(s) |-> LowerChar(s[k])]

Contains(s, t) == Find(s, t, 1) # 0

TargetNorms ==
    {<<"s", "u", "b", "s", "y", "s", "t", "e", "m">>,
     <<"s", "u", "b", "s", "y", "s", "t", "e", "m", "n", "a", "m", "e">>,
     <<"s", "u", "b", "_", "s", "y", "s", "t", "e", "m">>,
     <<"s", "u", "b", " ", "s", "y", "s", "t", "e", "m">>}

NormName(nm) == Lower(Strip(SubBackslashW(nm, 1)))

\* the for loop over the columns: the first column whose norm is a synonym,
\* else the last column whose norm contains "sub" and "system", else None
RECURSIVE GuessLoop(_, _, _)
GuessLoop(columns, k, best) ==
    IF k > Len(columns) THEN best
    ELSE LET norm == NormName(columns[k])
         IN  IF norm \in TargetNorms THEN columns[k]
             ELSE IF Contains(norm, <<"s", "u", "b">>) /\
                     Contains(norm, <<"s", "y", "s", "t", "e", "m">>)
                  THEN GuessLoop(columns, k + 1, columns[k])
                  ELSE GuessLoop(columns, k + 1, best)

GuessKeyCol(df_raw, preferred_name) ==
    IF preferred_name \in Range(df_raw.columns) THEN preferred_name
    ELSE LET best == GuessLoop(df_raw.columns, 1, None)
         IN  IF Falsy(best) THEN df_raw.columns[1] ELSE best

(***************************************************************************)
(* format_number                                                           *)
(***************************************************************************)
Zeros(n) == [k \in 1..n |-> "0"]

\* "" for None, the number with round_digits decimals, else str(val); the
\* numbers of the model are non-negative integers
FormatNumber(val, round_digits) ==
    IF val.t = "none" THEN <<>>
    ELSE IF val.t = "num"
         THEN IntToStr(val.n) \o (IF round_digits > 0 THEN <<".">> \o Zeros(round_digits) ELSE <<>>)
    ELSE PyStr(val)

(***************************************************************************)
(* build_ppt_openpyxl: the provenance of one summary cell.  A table is     *)
(* [name, columns, rows], a row mapping each column to a value.            *)
(***************************************************************************)
HasTable(tables, name) == \E k \in 1..Len(tables) : tables[k].name = name

TableNamed(tables, name) == tables[CHOOSE k \in 1..Len(tables) : tables[k].name = name]

\* raw_table_name if it names a table, else next(iter(table_dfs))
DefaultTableName(tables, raw_table_name) ==
    IF ~Falsy(raw_table_name) /\ HasTable(tables, raw_table_name) THEN raw_table_name
    ELSE tables[1].name

\* tbl_name = info.get("table") or default_table_name
CellTableName(info, default_table_name) ==
    IF Falsy(info.table) THEN default_table_name ELSE info.table

\* df_raw = table_dfs.get(tbl_name, table_dfs[default_table_name])
DfRaw(tables, tbl_name, default_table_name) ==
    IF HasTable(tables, tbl_name) THEN TableNamed(tables, tbl_name)
    ELSE TableNamed(tables, default_table_name)

\* a variant without dict.fromkeys: a column named twice is kept twice
ColsUsedNoDedupe(key_header, formula, tbl_name, df_raw) ==
    SelectSeq(<<key_header>> \o ParseStructuredColumns(formula, tbl_name),
              LAMBDA c : c \in Range(df_raw.columns))

\* cols_used: [key_header] + parsed columns, deduplicated, restricted to the
\* table's columns; when nothing is left, [key_header] or the whole schema
ColsUsed(key_header, formula, tbl_name, df_raw) ==
    LET all == Dedupe(<<key_header>> \o ParseStructuredColumns(formula, tbl_name))
        kept == SelectSeq(all, LAMBDA c : c \in Range(df_raw.columns))
    IN  IF kept # <<>> THEN kept
        ELSE IF key_header \in Range(df_raw.columns) THEN <<key_header>>
        ELSE df_raw.columns

\* colname: the column of the formula's predicate, else guess_key_col
FilterColumn(fk, df_raw, key_header) ==
    IF fk.col = None THEN GuessKeyCol(df_raw, key_header) ELSE fk.col

\* key_val = key_from_formula if key_from_formula is not None else key
FilterValue(fk, key) == IF fk.value = NoneVal THEN key ELSE fk.value

\* the positions of the rows with df_raw[colname] == key_val, in table order
MatchingIndex(df_raw, colname, key_val) ==
    LET F[k \in 0..Len(df_raw.rows)] ==
            IF k = 0 THEN <<>>
            ELSE IF df_raw.rows[k][colname] = key_val THEN Append(F[k - 1], k)
            ELSE F[k - 1]
    IN  F[Len(df_raw.rows)]

\* a variant that keeps every row of the table
FilteredIndexAllRows(df_raw, colname, key_val, key_header) ==
    [k \in 1..Len(df_raw.rows) |-> k]

\* a variant without the retry: no row when the table lacks the column
FilteredIndexNoRetry(df_raw, colname, key_val, key_header) ==
    IF colname \in Range(df_raw.columns)
    THEN MatchingIndex(df_raw, colname, key_val)
    ELSE <<>>

\* df_filtered: the filter on colname; a column the table does not have
\* raises, and the filter is retried on guess_key_col
FilteredIndex(df_raw, colname, key_val, key_header) ==
    IF colname \in Range(df_raw.columns)
    THEN MatchingIndex(df_raw, colname, key_val)
    ELSE MatchingIndex(df_raw, GuessKeyCol(df_raw, key_header), key_val)

\* df_snippet = df_filtered[cols_used].copy()
Snippet(df_raw, index, cols_used) ==
    [columns |-> cols_used,
     index |-> index,
     rows |-> [n \in 1..Len(index) |->
                  [k \in 1..Len(cols_used) |-> df_raw.rows[index[n]][cols_used[k]]]]]

NoSnippet == [columns |-> <<>>, index |-> <<>>, rows |-> <<>>]

\* the filter on the table df_raw by the filter key fk, projected on cols_used
FilteredSnippet(df_raw, cols_used, colname, key_val, key_header) ==
    [table |-> df_raw.name, colname |-> colname, key_val |-> key_val,
     snippet |-> Snippet(df_raw, FilteredIndex(df_raw, colname, key_val, key_header),
                         cols_used)]

ResolveIn(df_raw, formula, tbl_name, fk, key, key_header) ==
    FilteredSnippet(df_raw, ColsUsed(key_header, formula, tbl_name, df_raw),
                    FilterColumn(fk, df_raw, key_header), FilterValue(fk, key),
                    key_header)

\* what the provenance resolver finds for the summary entry info of data row
\* row_idx with key cell value key
ResolveTable(info, tbl_name, key, row_idx, tables, default_table_name, key_header, ws_values, start_col_idx) ==
    ResolveIn(DfRaw(tables, tbl_name, default_table_name), info.formula, tbl_name,
              ExtractFilterKey(info.formula, tbl_name, ws_values, row_idx, start_col_idx),
              key, key_header)

Provenance(info, key, row_idx, tables, default_table_name, key_header, ws_values, start_col_idx) ==
    ResolveTable(info, CellTableName(info, default_table_name), key, row_idx, tables,
                 default_table_name, key_header, ws_values, start_col_idx)

(***************************************************************************)
(* build_ppt_openpyxl: the run.  st is the state of one run: the handles,  *)
(* the locals and the presentation.  A slide is its index in st.slides.    *)
(* The summary table's cell (i, j) is [text, hlinks]: the text of its run  *)
(* and the slides the run's hyperlinks jump to; rows and columns count     *)
(* from 0 as in the code, row 0 being the header row.                      *)
(***************************************************************************)
MaxColsDefault == 60

RoundDigitsDefault == 2

TableFontPtDefault == 12

NoFormulaText == <<"(", "n", "o", " ", "f", "o", "r", "m", "u", "l", "a", " ", "f", "o", "u", "n", "d", ")">>

EvaluatedPrefix == <<"E", "v", "a", "l", "u", "a", "t", "e", "d", " ", "v", "a", "l", "u", "e", ":", " ">>

SummaryTitle == <<"S", "u", "m", "m", "a", "r", "y", " ", "T", "a", "b", "l", "e">>

\* " - " stands for the title's separator, an en dash between two blanks
TitleDash == <<" ", "-", " ">>

BlankSlide(kind, title) ==
    [kind |-> kind, title |-> title, home |-> <<>>, formula_text |-> <<>>,
     value_text |-> <<>>, snippet |-> NoSnippet, i |-> 0, j |-> 0, metric |-> <<>>]

EmptyTable ==
    [rows |-> 0, cols |-> 0, left |-> 0, top |-> 0, width |-> 0, height |-> 0,
     col_widths |-> <<>>, row_heights |-> <<>>, cells |-> <<>>]

InitRun ==
    [wb_formula |-> "unopened", wb_values |-> "unopened", error |-> "",
     default_table_name |-> None, hdr_row |-> 0, headers |-> <<>>, data_rows |-> <<>>,
     start_col_idx |-> 0, key_header |-> None, summary |-> <<>>,
     slides |-> <<>>, summary_slide |-> 0, table |-> EmptyTable,
     detail_slide_map |-> <<>>, i |-> 0, j |-> 0,
     col_lefts |-> <<>>, row_tops |-> <<>>, overlays |-> <<>>, saved |-> <<>>]

\* wb_formula = load_workbook(...); wb_values = load_workbook(..., data_only=True)
LoadWorkbooks(st) == [st EXCEPT !.wb_formula = "open", !.wb_values = "open"]

\* read_all_tables raises when the workbook has no table
ReadAllTablesRaises(tables) == tables = <<>>

ReadTables(st, tables, raw_table_name) ==
    [st EXCEPT !.default_table_name = DefaultTableName(tables, raw_table_name)]

RegionOf(a) == DetectSummaryRegionFromStart(a.ws, a.start_row, a.start_col, MaxColsDefault)

\* if not headers or not data_rows: raise
\* a reading of line 301 that tests the header list alone
RegionRaisesOnHeadersOnly(a) == RegionOf(a).headers = <<>>

RegionRaises(a) == RegionOf(a).headers = <<>> \/ RegionOf(a).data_rows = <<>>

DetectRegion(st, a) ==
    LET reg == RegionOf(a)
    IN  [st EXCEPT !.hdr_row = reg.hdr_row, !.headers = reg.headers,
                   !.data_rows = reg.data_rows, !.start_col_idx = reg.start_col,
                   !.key_header = IF a.key_header = None THEN reg.headers[1]
                                  ELSE a.key_header]

Raise(st, what) == [st EXCEPT !.error = what]

\* the entry of one summary cell: items["cells"][h] = {...}
SummaryCellInfo(ws, r, c_idx, hdr_row, last_row_in_block) ==
    LET f == BackfillFormula(ws, r, c_idx, hdr_row, last_row_in_block).f
        tbls == ExtractTableNames(f)
    IN  [address |-> <<r, c_idx>>, formula |-> f, value |-> CellValue(ws, r, c_idx),
         table |-> IF tbls = <<>> THEN None ELSE tbls[1]]

\* the column offsets whose header is h; a later one overwrites an earlier
\* one in items["cells"]
OffsetsOf(headers, h) == {c_off \in 1..(Len(headers) - 1) : headers[c_off + 1] = h}

\* a variant in which the first column of a header wins
CellColumnFirst(headers, h) == Min(OffsetsOf(headers, h))

\* the column offset whose entry items["cells"][h] holds after the loop
CellColumn(headers, h) == Max(OffsetsOf(headers, h))

\* one row of the collection pass: {"row": r, "key": key_value, "cells": {...}}
SummaryItem(ws, r, st) ==
    LET last_row_in_block == st.data_rows[Len(st.data_rows)]
    IN  [row |-> r,
         key |-> CellValue(ws, r, st.start_col_idx),
         cells |-> [h \in Range(Tail(st.headers)) |->
                       SummaryCellInfo(ws, r, st.start_col_idx + CellColumn(st.headers, h),
                                       st.hdr_row, last_row_in_block)]]

CollectSummary(st, ws) ==
    [st EXCEPT !.summary = [n \in 1..Len(st.data_rows) |-> SummaryItem(ws, st.data_rows[n], st)]]

\* prs = Presentation(pptx_in_path) if pptx_in_path else Presentation();
\* the summary slide and its table scaffold with the header texts
Scaffold(st, a) ==
    LET g == a.geom
        sum_cols == Len(st.headers)
        sum_rows == Len(st.summary) + 1
        left == g.title_left
        right_margin == g.slide_width - (g.title_left + g.title_width)
        top == g.title_top + g.title_height + InchesTenths(2)
        width == g.slide_width - left - right_margin
        base_row_height == BaseRowHeight(a.link_mode, a.table_font_pt)
        existing == [k \in 1..a.pptx_in |-> BlankSlide("existing", <<>>)]
    IN  [st EXCEPT
           !.slides = Append(existing, BlankSlide("summary", SummaryTitle)),
           !.summary_slide = a.pptx_in + 1,
           !.table = [rows |-> sum_rows, cols |-> sum_cols, left |-> left, top |-> top,
                      width |-> width,
                      height |-> RequestedTableHeight(base_row_height, sum_rows),
                      col_widths |-> ColWidths(width, sum_cols),
                      row_heights |-> RowHeights(base_row_height, sum_rows),
                      cells |-> [rc \in (0..(sum_rows - 1)) \X (0..(sum_cols - 1)) |->
                                    [text |-> IF rc[1] = 0 THEN st.headers[rc[2] + 1] ELSE <<>>,
                                     hlinks |-> <<>>]]],
           !.i = 1, !.j = 1]

Metric(st, j) == st.headers[j + 1]

\* a variant that keys the map by (key value, metric): the rows with the
\* same key value share the entry of the first of them
MapKeyByKeyValue(summary, i, metric) ==
    <<Min({k \in 1..Len(summary) : summary[k].key = summary[i].key}), metric>>

\* the key of detail_slide_map: (i, metric)
MapKey(summary, i, metric) == <<i, metric>>

\* detail_slide_map.get(key): 0 for None
MapGet(map, key) == IF key \in DOMAIN map THEN map[key] ELSE 0

\* detail_slide_map[key] = slide
MapPut(map, key, slide) ==
    [k \in (DOMAIN map) \cup {key} |-> IF k = key THEN slide ELSE map[k]]

\* the detail slide of iteration (i, j) of the first pass
DetailSlide(st, a, i, j) ==
    LET row == st.summary[i]
        metric == Metric(st, j)
        info == row.cells[metric]
        prov == Provenance(info, row.key, row.row, a.tables, st.default_table_name,
                           st.key_header, a.ws, st.start_col_idx)
    IN  [kind |-> "detail",
         title |-> PyStr(row.key) \o TitleDash \o metric,
         home |-> <<st.summary_slide>>,
         formula_text |-> IF Falsy(info.formula) THEN NoFormulaText ELSE info.formula,
         value_text |-> EvaluatedPrefix \o FormatNumber(info.value, a.round_digits),
         snippet |-> prov.snippet,
         i |-> i, j |-> j, metric |-> metric]

\* the slide of iteration (st.i, st.j) added to the deck and to the map
\* a variant that wires the summary cell's link as soon as its slide exists
AddDetailSlideAndLink(st, a) ==
    [st EXCEPT
       !.slides = Append(st.slides, DetailSlide(st, a, st.i, st.j)),
       !.detail_slide_map = MapPut(st.detail_slide_map,
                                   MapKey(st.summary, st.i, Metric(st, st.j)),
                                   Len(st.slides) + 1),
       !.table.cells[<<st.i, st.j>>].hlinks =
           <<[target |-> Len(st.slides) + 1, tooltip |-> <<>>]>>]

AddDetailSlide(st, a) ==
    [st EXCEPT
       !.slides = Append(st.slides, DetailSlide(st, a, st.i, st.j)),
       !.detail_slide_map = MapPut(st.detail_slide_map,
                                   MapKey(st.summary, st.i, Metric(st, st.j)),
                                   Len(st.slides) + 1)]

\* a variant that builds no slide for a cell without a computed value
BuildDetailIterationNonBlank(st, a, skip_set) ==
    IF st.j \in skip_set \/ IsBlank(st.summary[st.i].cells[Metric(st, st.j)].value) THEN st
    ELSE AddDetailSlide(st, a)

\* one iteration of "build detail slides first"
BuildDetailIteration(st, a, skip_set) ==
    IF st.j \in skip_set THEN st ELSE AddDetailSlide(st, a)

\* the loop variables after iteration (i, j) of a loop over rows and metrics
NextCell(st) ==
    IF st.j < Len(st.headers) - 1 THEN [st EXCEPT !.j = st.j + 1]
    ELSE [st EXCEPT !.i = st.i + 1, !.j = 1]

\* a variant that looks the target up under the first row
LinkTargetFirstRow(st, i, j) ==
    MapGet(st.detail_slide_map, MapKey(st.summary, 1, Metric(st, j)))

\* target = detail_slide_map.get((i, metric))
LinkTarget(st, i, j) ==
    MapGet(st.detail_slide_map, MapKey(st.summary, i, Metric(st, j)))

\* the run of a cell: its text and, with a target, its hyperlink
LinkedRun(st, text, linked, target) ==
    [text |-> text,
     hlinks |-> IF linked THEN <<[target |-> target, tooltip |-> st.slides[target].title]>>
                ELSE <<>>]

\* a variant that leaves the loop before it writes the text of a skipped column
SummaryCellSkipFirst(st, a, skip_set, i, j) ==
    IF j \in skip_set THEN [text |-> <<>>, hlinks |-> <<>>]
    ELSE LinkedRun(st, FormatNumber(st.summary[i].cells[Metric(st, j)].value, a.round_digits),
                   LinkTarget(st, i, j) # 0
                     /\ FormatNumber(st.summary[i].cells[Metric(st, j)].value,
                                     a.round_digits) # <<>>,
                   LinkTarget(st, i, j))

\* the text and the link of summary cell (i, j) of "write summary values"
SummaryCell(st, a, skip_set, i, j) ==
    LET text == FormatNumber(st.summary[i].cells[Metric(st, j)].value, a.round_digits)
        target == LinkTarget(st, i, j)
    IN  [text |-> text,
         hlinks |-> IF j \notin skip_set /\ target # 0 /\ text # <<>>
                    THEN <<[target |-> target, tooltip |-> st.slides[target].title]>>
                    ELSE <<>>]

\* one row of "write summary values"
WriteSummaryRow(st, a, skip_set) ==
    [st EXCEPT !.table.cells =
        [rc \in DOMAIN st.table.cells |->
            IF rc[1] # st.i THEN st.table.cells[rc]
            ELSE IF rc[2] = 0
                 THEN [text |-> FormatNumber(st.summary[st.i].key, a.round_digits),
                       hlinks |-> <<>>]
                 ELSE SummaryCell(st, a, skip_set, st.i, rc[2])]]

\* col_lefts and row_tops from the widths and heights of the table
RecomputeGrid(st) ==
    [st EXCEPT
       !.col_lefts = [j \in 1..st.table.cols |->
                         st.table.left + SeqSum(SubSeq(st.table.col_widths, 1, j - 1))],
       !.row_tops = [i \in 1..st.table.rows |->
                        st.table.top + SeqSum(SubSeq(st.table.row_heights, 1, i - 1))],
       !.i = 1, !.j = 1]

\* whether cell (i, j) gets an overlay
HasOverlay(st, skip_set, i, j) ==
    /\ j \notin skip_set
    /\ LinkTarget(st, i, j) # 0
    /\ st.table.cells[<<i, j>>].text # <<>>

\* a variant that takes the offsets of the column and the row before
OverlayOfPreviousCell(st, i, j) ==
    [i |-> i, j |-> j, x |-> st.col_lefts[j], y |-> st.row_tops[i],
     w |-> st.table.col_widths[j + 1], h |-> st.table.row_heights[i + 1],
     target |-> LinkTarget(st, i, j)]

OverlayOf(st, i, j) ==
    [i |-> i, j |-> j, x |-> st.col_lefts[j + 1], y |-> st.row_tops[i + 1],
     w |-> st.table.col_widths[j + 1], h |-> st.table.row_heights[i + 1],
     target |-> LinkTarget(st, i, j)]

\* one row of "overlays in FRONT"
OverlayRow(st, skip_set) ==
    LET M == Len(st.headers) - 1
        F[j \in 0..M] ==
            IF j = 0 THEN <<>>
            ELSE IF HasOverlay(st, skip_set, st.i, j) THEN Append(F[j - 1], OverlayOf(st, st.i, j))
            ELSE F[j - 1]
    IN  [st EXCEPT !.overlays = st.overlays \o F[M]]

\* prs.save(out_path): the deck as it is written
Save(st) ==
    [st EXCEPT !.saved = Append(st.saved, [slides |-> st.slides, table |-> st.table,
                                           overlays |-> st.overlays])]

\* finally: wb_formula.close(); wb_values.close()
CloseWorkbooks(st) == [st EXCEPT !.wb_formula = "closed", !.wb_values = "closed"]

\* the first load_workbook returned, the second raised: the function is left
\* before its try statement is entered
LoadValuesFails(st) == [st EXCEPT !.wb_formula = "open", !.error = "load_workbook"]

\* finally: wb_formula.close() raised, so wb_values.close() is not reached
CloseFormulaFails(st) == [st EXCEPT !.wb_formula = "close raised", !.error = "close"]

(***************************************************************************)
(* Specification SpecParse: parse_structured_columns applied to every      *)
(* formula made of at most MaxParseTokens tokens, for the table named T.   *)
(***************************************************************************)
MaxParseTokens == 6

ParseTokens == {<<"T", "[">>, <<"]">>, <<"a">>, <<"N">>, <<"'">>}

TokenSeqs(tokens, n) == UNION {[1..k -> tokens] : k \in 0..n}

ParseFormulas == {Concat(ts) : ts \in TokenSeqs(ParseTokens, MaxParseTokens)} \cup {None}

ParseTable == <<"T">>

Unused == <<>>

InitParse ==
    /\ pc = "call"
    /\ \E f \in ParseFormulas :
           call = [fn |-> "parse_structured_columns", formula |-> f,
                   table_name |-> ParseTable, result |-> <<>>]
    /\ inp = Unused /\ run = Unused /\ ref = Unused

CallParseStructuredColumns ==
    /\ pc = "call"
    /\ call.fn = "parse_structured_columns"
    /\ call' = [call EXCEPT !.result = ParseStructuredColumns(call.formula, call.table_name)]
    /\ pc' = "ret"
    /\ UNCHANGED <<inp, run, ref>>

NextParse == CallParseStructuredColumns

SpecParse == InitParse /\ [][NextParse]_vars

(***************************************************************************)
(* Specification SpecFilter: extract_filter_key applied to every formula   *)
(* made of at most MaxFilterTokens tokens, one of which stands for the     *)
(* anchor cell; the formula is resolved once for each way of writing the   *)
(* anchor ($A$12, $A12, A$12, A12).                                        *)
(***************************************************************************)
MaxFilterTokens == 5

AnchorToken == <<"@">>

FilterTokens ==
    {<<"=">>, <<",">>, <<" ">>, <<"T", "[", "p", "]">>, <<"T", "[", "a", "]">>, AnchorToken}

FilterTable == <<"T">>

FilterRow == 12

FilterKeyCol == 1

FilterKeyValues == {NumVal(7)}

\* the anchor cell written with or without "$" before the column and the row
AnchorText(col_abs, row_abs, row_idx, key_col_idx) ==
    (IF col_abs THEN <<"$">> ELSE <<>>) \o GetColumnLetter(key_col_idx) \o
    (IF row_abs THEN <<"$">> ELSE <<>>) \o IntToStr(row_idx)

AnchorForms == BOOLEAN \X BOOLEAN

\* the formula of a template, its anchor written in the given form
Instantiate(template, form, row_idx, key_col_idx) ==
    Concat([k \in 1..Len(template) |->
               IF template[k] = AnchorToken
               THEN AnchorText(form[1], form[2], row_idx, key_col_idx)
               ELSE template[k]])

InitFilter ==
    /\ pc = "call"
    /\ \E tpl \in TokenSeqs(FilterTokens, MaxFilterTokens), kv \in FilterKeyValues :
           call = [fn |-> "extract_filter_key", template |-> tpl,
                   table_name |-> FilterTable,
                   sht |-> (<<FilterRow, FilterKeyCol>> :> [value |-> kv]),
                   row_idx |-> FilterRow, key_col_idx |-> FilterKeyCol,
                   result |-> <<>>]
    /\ inp = Unused /\ run = Unused /\ ref = Unused

CallExtractFilterKey ==
    /\ pc = "call"
    /\ call.fn = "extract_filter_key"
    /\ call' = [call EXCEPT !.result =
                   [form \in AnchorForms |->
                       ExtractFilterKey(
                           Instantiate(call.template, form, call.row_idx, call.key_col_idx),
                           call.table_name, call.sht, call.row_idx, call.key_col_idx)]]
    /\ pc' = "ret"
    /\ UNCHANGED <<inp, run, ref>>

NextFilter == CallExtractFilterKey

SpecFilter == InitFilter /\ [][NextFilter]_vars

\* C7: formulas that differ only in how the anchor cell is written ($L$r,
\* $Lr, L$r, Lr) yield the same (filterColumn, filterValue) pair.
C7_AnchorAgnostic ==
    pc = "ret" /\ call.fn = "extract_filter_key" =>
        \A f1, f2 \in AnchorForms : call.result[f1] = call.result[f2]

\* a function-style formula whose anchor resolved to the key column p and
\* the key cell's value, in every form
C7_Witness ==
    /\ pc = "ret" /\ call.fn = "extract_filter_key"
    /\ call.template = <<<<"T", "[", "a", "]">>, <<",">>, <<"T", "[", "p", "]">>, <<",">>, AnchorToken>>
    /\ \A f \in AnchorForms :
           call.result[f] = [col |-> <<"p">>, value |-> CellValue(call.sht, FilterRow, FilterKeyCol)]
    /\ CellValue(call.sht, FilterRow, FilterKeyCol) = NumVal(7)

(***************************************************************************)
(* Specification SpecLayout: the scaffold's widths and heights for every   *)
(* total width up to MaxTotalW, column count up to MaxSumCols and row      *)
(* count up to MaxSumRows, in both link modes.                             *)
(***************************************************************************)
MaxTotalW == 24

MaxSumCols == 4

MaxSumRows == 3

LayoutFontPts == {12, 18}

InitLayout ==
    /\ pc = "call"
    /\ \E w \in 0..MaxTotalW, n \in 1..MaxSumCols, m \in 1..MaxSumRows,
          lm \in {"text", "overlay"}, pt \in LayoutFontPts :
           call = [fn |-> "layout", total_w |-> w, sum_cols |-> n, sum_rows |-> m,
                   link_mode |-> lm, table_font_pt |-> pt,
                   col_widths |-> <<>>, row_heights |-> <<>>, table_height |-> 0]
    /\ inp = Unused /\ run = Unused /\ ref = Unused

CallLayout ==
    /\ pc = "call"
    /\ call.fn = "layout"
    /\ LET base_row_height == BaseRowHeight(call.link_mode, call.table_font_pt)
       IN  call' = [call EXCEPT
                      !.col_widths = ColWidths(call.total_w, call.sum_cols),
                      !.row_heights = RowHeights(base_row_height, call.sum_rows),
                      !.table_height = RequestedTableHeight(base_row_height, call.sum_rows)]
    /\ pc' = "ret"
    /\ UNCHANGED <<inp, run, ref>>

NextLayout == CallLayout

SpecLayout == InitLayout /\ [][NextLayout]_vars

\* C5: the first N-1 column widths are W div N, the last is W div N + W mod N,
\* so the widths sum to W; the row heights sum to the requested table height.
C5_WidthsAndHeightsSum ==
    pc = "ret" /\ call.fn = "layout" =>
        /\ Len(call.col_widths) = call.sum_cols
        /\ \A j \in 1..(call.sum_cols - 1) : call.col_widths[j] = call.total_w \div call.sum_cols
        /\ call.col_widths[call.sum_cols] =
               (call.total_w \div call.sum_cols) + (call.total_w % call.sum_cols)
        /\ SeqSum(call.col_widths) = call.total_w
        /\ Len(call.row_heights) = call.sum_rows
        /\ SeqSum(call.row_heights) = call.table_height

\* a width that does not divide evenly: the last column took the remainder
C5_Witness ==
    /\ pc = "ret" /\ call.fn = "layout"
    /\ call.total_w = 23 /\ call.sum_cols = 4 /\ call.sum_rows = 3
    /\ call.col_widths = <<5, 5, 5, 8>>
    /\ call.link_mode = "text" /\ call.table_height = 3 * call.row_heights[1]

(***************************************************************************)
(* Specification SpecBackfill: the backfill loops run step by step on one  *)
(* column of a sheet whose block of data rows is hdr_row+1 .. last; every  *)
(* row of the column, the header row and the row after the block included, *)
(* holds a formula, a formula stored without "=", or a number.             *)
(***************************************************************************)
MaxBlockRows == 3

BackfillHdrRows == {1, 2}

BackfillCol == 2

\* the cell of row k: a formula that names its own row, or a plain number
BackfillCell(kind, k) ==
    IF kind = "formula"
    THEN [value |-> NumVal(k), data_type |-> "f", fvalue |-> StrVal(<<"=", "F">> \o IntToStr(k))]
    ELSE IF kind = "bare"
    THEN [value |-> NumVal(k), data_type |-> "f", fvalue |-> StrVal(<<"F">> \o IntToStr(k))]
    ELSE [value |-> NumVal(k), data_type |-> "n", fvalue |-> NumVal(k)]

BackfillKinds == {"formula", "bare", "number"}

InitBackfill ==
    /\ pc = "own"
    /\ \E hdr \in BackfillHdrRows, n \in 1..MaxBlockRows :
       \E kinds \in [hdr..(hdr + n + 1) -> BackfillKinds], r \in (hdr + 1)..(hdr + n) :
           call = [fn |-> "backfill",
                   sht |-> [rc \in (hdr..(hdr + n + 1)) \X {BackfillCol} |->
                               BackfillCell(kinds[rc[1]], rc[1])],
                   hdr_row |-> hdr, last_row_in_block |-> hdr + n,
                   r |-> r, c_idx |-> BackfillCol,
                   ls |-> [f |-> None, rr |-> r, reads |-> <<>>]]
    /\ inp = Unused /\ run = Unused /\ ref = Unused

\* f = get_formula_str(cell_formula); if not f: rr = r - 1
BackfillOwn ==
    /\ pc = "own"
    /\ LET own == OwnFormula(call.sht, call.r, call.c_idx)
       IN  IF ~Falsy(own.f)
           THEN call' = [call EXCEPT !.ls = own] /\ pc' = "done"
           ELSE call' = [call EXCEPT !.ls = [own EXCEPT !.rr = call.r - 1]] /\ pc' = "up"
    /\ UNCHANGED <<inp, run, ref>>

BackfillUpStep ==
    /\ pc = "up"
    /\ UpCond(call.ls, call.hdr_row)
    /\ call' = [call EXCEPT !.ls = UpBody(call.ls, call.sht, call.c_idx)]
    /\ UNCHANGED <<pc, inp, run, ref>>

\* the upward loop ends: if not f: rr = r + 1
BackfillUpExit ==
    /\ pc = "up"
    /\ ~UpCond(call.ls, call.hdr_row)
    /\ IF ~Falsy(call.ls.f)
       THEN pc' = "done" /\ UNCHANGED call
       ELSE pc' = "down" /\ call' = [call EXCEPT !.ls.rr = call.r + 1]
    /\ UNCHANGED <<inp, run, ref>>

BackfillDownStep ==
    /\ pc = "down"
    /\ DownCond(call.ls, call.last_row_in_block)
    /\ call' = [call EXCEPT !.ls = DownBody(call.ls, call.sht, call.c_idx)]
    /\ UNCHANGED <<pc, inp, run, ref>>

BackfillDownExit ==
    /\ pc = "down"
    /\ ~DownCond(call.ls, call.last_row_in_block)
    /\ pc' = "done"
    /\ UNCHANGED <<call, inp, run, ref>>

NextBackfill ==
    \/ BackfillOwn
    \/ BackfillUpStep
    \/ BackfillUpExit
    \/ BackfillDownStep
    \/ BackfillDownExit

SpecBackfill == InitBackfill /\ [][NextBackfill]_vars

HasFormula(sht, k, c) == ~Falsy(FormulaAt(sht, k, c))

\* the formula C8 names: the cell's own, else the nearest above within the
\* block, else the nearest below within the block, else none
NearestFormula(sht, r, c, hdr_row, last) ==
    LET above == {k \in (hdr_row + 1)..(r - 1) : HasFormula(sht, k, c)}
        below == {k \in (r + 1)..last : HasFormula(sht, k, c)}
    IN  IF HasFormula(sht, r, c) THEN FormulaAt(sht, r, c)
        ELSE IF above # {} THEN FormulaAt(sht, Max(above), c)
        ELSE IF below # {} THEN FormulaAt(sht, Min(below), c)
        ELSE None

\* C8: backfill adopts the cell's own formula, else that of the nearest row
\* above it in the block, else that of the nearest row below it in the block,
\* else none; it reads no row outside [hdr_row+1, last_data_row], reads no row
\* twice (so it ends within one pass over the block) and is never stuck before
\* it ends; and the one-step result is what the collection pass computes.
C8_Backfill ==
    call.fn = "backfill" =>
        /\ \A k \in Range(call.ls.reads) :
               call.hdr_row + 1 <= k /\ k <= call.last_row_in_block
        /\ NoDuplicates(call.ls.reads)
        /\ pc # "done" => ENABLED NextBackfill
        /\ pc = "done" =>
               /\ call.ls.f = NearestFormula(call.sht, call.r, call.c_idx,
                                             call.hdr_row, call.last_row_in_block)
               /\ call.ls.f = BackfillFormula(call.sht, call.r, call.c_idx, call.hdr_row,
                                              call.last_row_in_block).f
               /\ (/\ HasFormula(call.sht, call.hdr_row + 1, call.c_idx)
                   /\ \A k \in (call.hdr_row + 2)..call.last_row_in_block :
                          ~HasFormula(call.sht, k, call.c_idx))
                  => call.ls.f = FormulaAt(call.sht, call.hdr_row + 1, call.c_idx)

\* the last row of a three-row block adopted the first row's formula although
\* the header row and the row after the block hold formulas too
C8_Witness ==
    /\ pc = "done" /\ call.fn = "backfill"
    /\ call.hdr_row = 1 /\ call.last_row_in_block = 4 /\ call.r = 4
    /\ HasFormula(call.sht, 1, call.c_idx) /\ HasFormula(call.sht, 5, call.c_idx)
    /\ call.ls.f = <<"=", "F", "2">>
    /\ call.ls.reads = <<4, 3, 2>>

(***************************************************************************)
(* Specification Spec: one run of build_ppt_openpyxl, and beside it the    *)
(* same run with an empty skip set (ref).  The sheet has a header row, up  *)
(* to MaxRows data rows and up to MaxMetrics metric columns; the workbook  *)
(* has the tables T and U.                                                 *)
(***************************************************************************)
MaxRows == 2

MaxMetrics == 2

MetricNames == <<<<"m">>, <<"n">>, <<"o">>, <<"u">>>>

KeyHeaderText == <<"p">>

KeyTexts == <<<<"E">>, <<"Z">>, <<"W">>, <<"E">>>>

FormulaKinds == <<"sumifs", "eq", "none", "other", "badcol">>

\* the metric headers: distinct, or the last one repeating the first
MetricHeaders(M, dup) ==
    [j \in 1..M |-> IF dup /\ j = M THEN MetricNames[1] ELSE MetricNames[j]]

\* the formula of a column of the given kind in row r, its anchor the key cell
FormulaText(kind, r, start_col) ==
    LET A == GetColumnLetter(start_col)
        row == IntToStr(r)
    IN  IF kind = "sumifs"
        THEN <<"=", "S", "(", "T", "[", "a", "]", ",", "T", "[", "p", "]", ",", "$">> \o A \o row \o <<")">>
        ELSE IF kind = "eq"
        THEN <<"=", "S", "(", "(", "T", "[", "q", "]", "=">> \o A \o row \o <<")", "*", "T", "[", "a", "]", ")">>
        ELSE IF kind = "other"
        THEN <<"=", "S", "(", "U", "[", "b", "]", ",", "U", "[", "p", "]", ",">> \o A \o <<"$">> \o row \o <<")">>
        ELSE <<"=", "S", "(", "T", "[", "a", "]", ",", "T", "[", "z", "]", ",", "$">> \o A \o <<"$">> \o row \o <<")">>

MetricCell(kind, r, start_col, value) ==
    IF kind = "none" THEN [value |-> value, data_type |-> "n", fvalue |-> value]
    ELSE [value |-> value, data_type |-> "f",
          fvalue |-> StrVal(FormulaText(kind, r, start_col))]

PlainCell(value) == [value |-> value, data_type |-> IF value.t = "str" THEN "s" ELSE "n",
                     fvalue |-> value]

\* the sheet: headers in row 1 from column 1, data rows from row 2; the cell
\* blank (a <<row, metric>> pair, or <<0, 0>>) has no computed value
MakeSheet(R, metrics, same_keys, blank, shift) ==
    [rc \in (1..(R + 1)) \X (1..(Len(metrics) + 1)) |->
        LET r == rc[1]
            c == rc[2]
        IN  IF r = 1 THEN PlainCell(StrVal(IF c = 1 THEN KeyHeaderText ELSE metrics[c - 1]))
            ELSE IF c = 1 THEN PlainCell(StrVal(IF same_keys THEN KeyTexts[1] ELSE KeyTexts[r - 1]))
            ELSE MetricCell(FormulaKinds[((c - 2 + shift) % Len(FormulaKinds)) + 1], r, 1,
                            IF blank = <<r - 1, c - 1>> THEN NoneVal
                            ELSE NumVal(10 * (r - 1) + (c - 1)))]

TableRow(columns, values) ==
    [c \in Range(columns) |-> values[CHOOSE k \in 1..Len(columns) : columns[k] = c]]

TableT ==
    LET columns == <<<<"p">>, <<"a">>, <<"q">>>>
    IN  [name |-> <<"T">>, columns |-> columns,
         rows |-> <<TableRow(columns, <<StrVal(<<"E">>), NumVal(1), StrVal(<<"x">>)>>),
                    TableRow(columns, <<StrVal(<<"W">>), NumVal(2), StrVal(<<"E">>)>>),
                    TableRow(columns, <<StrVal(<<"E">>), NumVal(3), StrVal(<<"y">>)>>)>>]

TableU ==
    LET columns == <<<<"b">>, <<"p">>>>
    IN  [name |-> <<"U">>, columns |-> columns,
         rows |-> <<TableRow(columns, <<NumVal(8), StrVal(<<"W">>)>>),
                    TableRow(columns, <<NumVal(9), StrVal(<<"E">>)>>)>>]

\* the Title Only layout of python-pptx's default template, in EMU
DefaultGeom ==
    [slide_width |-> 9144000, title_left |-> 457200, title_top |-> 274638,
     title_width |-> 8229600, title_height |-> 1143000]

MakeInput(ws, tables, key_header, link_mode, pptx_in, skip) ==
    [ws |-> ws, start_row |-> 2, start_col |-> 1, tables |-> tables,
     raw_table_name |-> None, link_mode |-> link_mode,
     table_font_pt |-> TableFontPtDefault, key_header |-> key_header,
     round_digits |-> RoundDigitsDefault, pptx_in |-> pptx_in,
     skip_col_idxs |-> skip, geom |-> DefaultGeom]

\* no cell without a computed value, or the first metric cell of the first row
BlankCells == {<<0, 0>>, <<1, 1>>}

\* the formula kinds of the metric columns start at one of these offsets
KindShifts == {0, 2, 3}

\* the inputs with R data rows and M metric columns
InputsOf(R, M) ==
    {MakeInput(MakeSheet(R, MetricHeaders(M, dup), same_keys, blank, shift),
               <<TableT, TableU>>, kh, lm, pin, skip) :
        dup \in BOOLEAN, same_keys \in BOOLEAN, blank \in BlankCells, shift \in KindShifts,
        kh \in {None, <<"z">>}, lm \in {"overlay", "text"}, pin \in {0, 1},
        skip \in SUBSET (1..M)}

RunInputs == UNION {InputsOf(R, M) : R \in 1..MaxRows, M \in 0..MaxMetrics}

\* a workbook without tables, a sheet without data rows, a sheet without headers
FailingInputs ==
    {MakeInput(MakeSheet(1, MetricHeaders(1, FALSE), FALSE, <<0, 0>>, 0), <<>>,
               None, "overlay", 0, {}),
     MakeInput(MakeSheet(0, MetricHeaders(1, FALSE), FALSE, <<0, 0>>, 0), <<TableT>>,
               None, "overlay", 0, {}),
     MakeInput([rc \in {<<2, 1>>} |-> PlainCell(StrVal(KeyTexts[1]))], <<TableT>>,
               None, "overlay", 0, {})}

Init ==
    /\ pc = "load"
    /\ inp \in RunInputs \cup FailingInputs
    /\ run = InitRun
    /\ ref = InitRun
    /\ call = Unused

SkipSet == inp.skip_col_idxs

NumRows(st) == Len(st.summary)

NumMetrics(st) == Len(st.headers) - 1

Load ==
    /\ pc = "load"
    /\ run' = LoadWorkbooks(run)
    /\ ref' = LoadWorkbooks(ref)
    /\ pc' = "read_tables"
    /\ UNCHANGED <<inp, call>>

\* load_workbook raises (an unreadable file): before anything is opened
LoadFormulaRaise ==
    /\ pc = "load"
    /\ run' = Raise(run, "load_workbook")
    /\ ref' = Raise(ref, "load_workbook")
    /\ pc' = "raised"
    /\ UNCHANGED <<inp, call>>

\* the second load_workbook raises
LoadValuesRaise ==
    /\ pc = "load"
    /\ run' = LoadValuesFails(run)
    /\ ref' = LoadValuesFails(ref)
    /\ pc' = "raised"
    /\ UNCHANGED <<inp, call>>

ReadTablesOk ==
    /\ pc = "read_tables"
    /\ ~ReadAllTablesRaises(inp.tables)
    /\ run' = ReadTables(run, inp.tables, inp.raw_table_name)
    /\ ref' = ReadTables(ref, inp.tables, inp.raw_table_name)
    /\ pc' = "detect"
    /\ UNCHANGED <<inp, call>>

ReadTablesRaise ==
    /\ pc = "read_tables"
    /\ ReadAllTablesRaises(inp.tables)
    /\ run' = Raise(run, "No Excel Table (ListObject) found in this workbook.")
    /\ ref' = Raise(ref, "No Excel Table (ListObject) found in this workbook.")
    /\ pc' = "finally"
    /\ UNCHANGED <<inp, call>>

DetectOk ==
    /\ pc = "detect"
    /\ ~RegionRaises(inp)
    /\ run' = DetectRegion(run, inp)
    /\ ref' = DetectRegion(ref, inp)
    /\ pc' = "collect"
    /\ UNCHANGED <<inp, call>>

DetectRaise ==
    /\ pc = "detect"
    /\ RegionRaises(inp)
    /\ run' = Raise(run, "Could not detect headers or data rows; check --summary_start.")
    /\ ref' = Raise(ref, "Could not detect headers or data rows; check --summary_start.")
    /\ pc' = "finally"
    /\ UNCHANGED <<inp, call>>

Collect ==
    /\ pc = "collect"
    /\ run' = CollectSummary(run, inp.ws)
    /\ ref' = CollectSummary(ref, inp.ws)
    /\ pc' = "scaffold"
    /\ UNCHANGED <<inp, call>>

AddSummarySlide ==
    /\ pc = "scaffold"
    /\ run' = Scaffold(run, inp)
    /\ ref' = Scaffold(ref, inp)
    /\ pc' = "details"
    /\ UNCHANGED <<inp, call>>

BuildDetail ==
    /\ pc = "details"
    /\ run.i <= NumRows(run) /\ NumMetrics(run) >= 1
    /\ run' = NextCell(BuildDetailIteration(run, inp, SkipSet))
    /\ ref' = NextCell(BuildDetailIteration(ref, inp, {}))
    /\ UNCHANGED <<pc, inp, call>>

DetailsDone ==
    /\ pc = "details"
    /\ ~(run.i <= NumRows(run) /\ NumMetrics(run) >= 1)
    /\ run' = [run EXCEPT !.i = 1, !.j = 1]
    /\ ref' = [ref EXCEPT !.i = 1, !.j = 1]
    /\ pc' = "write"
    /\ UNCHANGED <<inp, call>>

WriteRow ==
    /\ pc = "write"
    /\ run.i <= NumRows(run)
    /\ run' = [WriteSummaryRow(run, inp, SkipSet) EXCEPT !.i = run.i + 1]
    /\ ref' = [WriteSummaryRow(ref, inp, {}) EXCEPT !.i = ref.i + 1]
    /\ UNCHANGED <<pc, inp, call>>

Recompute ==
    /\ pc = "write"
    /\ run.i > NumRows(run)
    /\ run' = RecomputeGrid(run)
    /\ ref' = RecomputeGrid(ref)
    /\ pc' = "overlays"
    /\ UNCHANGED <<inp, call>>

PlaceOverlays ==
    /\ pc = "overlays"
    /\ inp.link_mode = "overlay" /\ run.i <= NumRows(run)
    /\ run' = [OverlayRow(run, SkipSet) EXCEPT !.i = run.i + 1]
    /\ ref' = [OverlayRow(ref, {}) EXCEPT !.i = ref.i + 1]
    /\ UNCHANGED <<pc, inp, call>>

SaveDeck ==
    /\ pc = "overlays"
    /\ ~(inp.link_mode = "overlay" /\ run.i <= NumRows(run))
    /\ run' = Save(run)
    /\ ref' = Save(ref)
    /\ pc' = "finally"
    /\ UNCHANGED <<inp, call>>

Finally ==
    /\ pc = "finally"
    /\ run' = CloseWorkbooks(run)
    /\ ref' = CloseWorkbooks(ref)
    /\ pc' = IF run.error = "" THEN "returned" ELSE "raised"
    /\ UNCHANGED <<inp, call>>

\* wb_formula.close() raises in the finally clause
FinallyRaise ==
    /\ pc = "finally"
    /\ run' = CloseFormulaFails(run)
    /\ ref' = CloseFormulaFails(ref)
    /\ pc' = "raised"
    /\ UNCHANGED <<inp, call>>

Next ==
    \/ Load
    \/ LoadFormulaRaise
    \/ LoadValuesRaise
    \/ ReadTablesOk
    \/ ReadTablesRaise
    \/ DetectOk
    \/ DetectRaise
    \/ Collect
    \/ AddSummarySlide
    \/ BuildDetail
    \/ DetailsDone
    \/ WriteRow
    \/ Recompute
    \/ PlaceOverlays
    \/ SaveDeck
    \/ Finally
    \/ FinallyRaise

Spec == Init /\ [][Next]_vars

(***************************************************************************)
(* What a structured reference names, stated without the scanning loops.   *)
(***************************************************************************)
\* the number of consecutive "]" that end at position c, none before lo
RECURSIVE BracketRun(_, _, _)
BracketRun(s, lo, c) ==
    IF c < lo \/ s[c] # "]" THEN 0 ELSE 1 + BracketRun(s, lo, c - 1)

\* an unescaped "]": the last one of a run of odd length
Closes(s, lo, c) ==
    /\ s[c] = "]"
    /\ (c = Len(s) \/ s[c + 1] # "]")
    /\ BracketRun(s, lo, c) % 2 = 1

\* the position of the bracket that closes the name starting at lo,
\* Len(s) + 1 when the name is not closed
NameEnd(s, lo) ==
    LET ends == {c \in lo..Len(s) : Closes(s, lo, c)}
    IN  IF ends = {} THEN Len(s) + 1 ELSE Min(ends)

\* the text from lo up to its closing bracket, each "]]" as one "]"
EscapedName(s, lo) ==
    LET hi == NameEnd(s, lo) - 1
        keep == {k \in lo..hi : s[k] # "]" \/ BracketRun(s, lo, k) % 2 = 0}
        F[k \in (lo - 1)..hi] ==
            IF k < lo THEN <<>>
            ELSE IF k \in keep THEN Append(F[k - 1], s[k]) ELSE F[k - 1]
    IN  F[hi]

AllOccurrences(s, target) == {p \in 1..Len(s) : HasAt(s, target, p)}

\* the occurrences met when each search resumes after the previous name
RECURSIVE ScanOccurrences(_, _, _)
ScanOccurrences(s, target, i) ==
    LET later == {p \in AllOccurrences(s, target) : p >= i}
    IN  IF later = {} THEN <<>>
        ELSE <<Min(later)>> \o
             ScanOccurrences(s, target, NameEnd(s, Min(later) + Len(target)) + 1)

RECURSIVE SortedSeq(_)
SortedSeq(S) == IF S = {} THEN <<>> ELSE <<Min(S)>> \o SortedSeq(S \ {Min(S)})

NamesAt(s, target, occ, strip) ==
    [k \in 1..Len(occ) |->
        LET nm == EscapedName(s, occ[k] + Len(target))
        IN  IF strip THEN Remove(nm, "'") ELSE nm]

\* C6 as stated: one name per occurrence of T[, the name being the text up
\* to the closing bracket with "]]" read as "]"
ColumnsPerOccurrence(formula, table_name) ==
    IF Falsy(formula) THEN <<>>
    ELSE LET target == table_name \o <<"[">>
         IN  Dedupe(NamesAt(formula, target, SortedSeq(AllOccurrences(formula, target)), FALSE))

\* C6 as amended: one name per occurrence met by the left-to-right scan,
\* apostrophes removed from the name
ColumnsPerScannedOccurrence(formula, table_name) ==
    IF Falsy(formula) THEN <<>>
    ELSE LET target == table_name \o <<"[">>
         IN  Dedupe(NamesAt(formula, target, ScanOccurrences(formula, target, 1), TRUE))

ExampleFormula ==
    <<"T", "a", "b", "l", "e", "[", "N", "a", "m", "e", " ", "w", "i", "t", "h", " ",
      "]", "]", " ", "b", "r", "a", "c", "k", "e", "t", "]">>

ExampleName ==
    <<"N", "a", "m", "e", " ", "w", "i", "t", "h", " ", "]", " ",
      "b", "r", "a", "c", "k", "e", "t">>

ExampleParsed ==
    ParseStructuredColumns(ExampleFormula, <<"T", "a", "b", "l", "e">>) = <<ExampleName>>

\* C6 (as stated): parse_structured_columns returns, deduplicated in
\* first-seen order, one name for every occurrence of T[ in the formula, the
\* name being the text after "[" up to the closing "]" with "]]" read as "]".
C6_PerOccurrence ==
    pc = "ret" /\ call.fn = "parse_structured_columns" =>
        call.result = ColumnsPerOccurrence(call.formula, call.table_name)

\* C6 (amended): parse_structured_columns returns, deduplicated in first-seen
\* order, one name for every occurrence of T[ that the left-to-right scan
\* meets (the search resumes after the previous name's closing bracket), the
\* name being the text up to the closing "]" with "]]" read as "]" and with
\* every apostrophe removed; the documented example parses to its one name.
C6_ParsedColumns ==
    pc = "ret" /\ call.fn = "parse_structured_columns" =>
        /\ call.result = ColumnsPerScannedOccurrence(call.formula, call.table_name)
        /\ NoDuplicates(call.result)
        /\ ExampleParsed

\* a parse that met an escaped bracket, a repeated column and a second column
C6_Witness ==
    /\ pc = "ret" /\ call.fn = "parse_structured_columns"
    /\ \/ call.formula = <<"T", "[", "a", "]", "]", "N", "]">> /\ call.result = <<<<"a", "]", "N">>>>
       \/ call.formula = <<"T", "[", "a", "]", "T", "[", "a", "]">> /\ call.result = <<<<"a">>>>

(***************************************************************************)
(* The deck a completed run of build_ppt_openpyxl saved, and the deck the  *)
(* same run saves with an empty skip set.                                  *)
(***************************************************************************)
Completed == pc = "returned"

Deck == run.saved[1]

RefDeck == ref.saved[1]

Rows == 1..Len(run.summary)

Metrics == 1..(Len(run.headers) - 1)

Cell(deck, i, j) == deck.table.cells[<<i, j>>]

DetailSlides(deck) == {s \in 1..Len(deck.slides) : deck.slides[s].kind = "detail"}

\* the detail slides built by iteration (i, j) of the first pass
SlidesOfCell(deck, i, j) ==
    {s \in DetailSlides(deck) : deck.slides[s].i = i /\ deck.slides[s].j = j}

\* the detail slides built for row index i and metric header metric
SlidesOfKey(deck, i, metric) ==
    {s \in DetailSlides(deck) : deck.slides[s].i = i /\ deck.slides[s].metric = metric}

OverlaysOfCell(deck, i, j) ==
    {k \in 1..Len(deck.overlays) : deck.overlays[k].i = i /\ deck.overlays[k].j = j}

\* whether the run of cell (i, j) carries one link, to a slide built for row i
LinksToOwnRow(deck, i, j) ==
    /\ Len(Cell(deck, i, j).hlinks) = 1
    /\ Cell(deck, i, j).hlinks[1].target \in DetailSlides(deck)
    /\ deck.slides[Cell(deck, i, j).hlinks[1].target].i = i

\* C1: after a completed run every non-skipped summary cell (i, j) with a
\* non-empty display text carries exactly one link; its target is a detail
\* slide built for (i, metric j); in overlay mode the cell has exactly one
\* overlay and it targets the same slide; and that slide's one back-link
\* targets the deck's single summary slide.
C1_LinkRoundTrip ==
    Completed =>
        /\ Len(run.saved) = 1
        /\ {s \in 1..Len(Deck.slides) : Deck.slides[s].kind = "summary"} = {run.summary_slide}
        /\ inp.link_mode # "overlay" => Deck.overlays = <<>>
        /\ \A i \in Rows, j \in Metrics :
               (j \notin SkipSet /\ Cell(Deck, i, j).text # <<>>) =>
                   /\ Len(Cell(Deck, i, j).hlinks) = 1
                   /\ Cell(Deck, i, j).hlinks[1].target \in
                          SlidesOfKey(Deck, i, run.headers[j + 1])
                   /\ Deck.slides[Cell(Deck, i, j).hlinks[1].target].home =
                          <<run.summary_slide>>
                   /\ inp.link_mode = "overlay" =>
                          /\ Cardinality(OverlaysOfCell(Deck, i, j)) = 1
                          /\ \A k \in OverlaysOfCell(Deck, i, j) :
                                 Deck.overlays[k].target = Cell(Deck, i, j).hlinks[1].target

\* an overlay run on a base deck: cell (2, 2) links to the slide of row 2 and
\* its overlay targets it; the slide links back to the summary slide
C1_Witness ==
    /\ Completed /\ inp.link_mode = "overlay" /\ inp.pptx_in = 1
    /\ Len(run.summary) = 2 /\ Len(run.headers) = 3 /\ SkipSet = {}
    /\ run.headers[2] # run.headers[3]
    /\ LinksToOwnRow(Deck, 2, 2)
    /\ Deck.slides[Cell(Deck, 2, 2).hlinks[1].target].j = 2
    /\ Deck.slides[Cell(Deck, 2, 2).hlinks[1].target].home = <<2>>
    /\ Deck.slides[2].kind = "summary"
    /\ \E k \in OverlaysOfCell(Deck, 2, 2) :
           Deck.overlays[k].target = Cell(Deck, 2, 2).hlinks[1].target

\* the pairs of distinct data rows that hold the same key value
SameKeyRows ==
    {p \in Rows \X Rows : p[1] # p[2] /\ run.summary[p[1]].key = run.summary[p[2]].key}

\* C2 as stated: for two distinct rows with the same key value and a
\* non-skipped metric, two distinct detail slides are built and each row's
\* summary cell links to the slide built for its own row.
C2_EveryCellLinked ==
    Completed =>
        \A p \in SameKeyRows, j \in Metrics \ SkipSet :
            /\ \E s1 \in SlidesOfCell(Deck, p[1], j), s2 \in SlidesOfCell(Deck, p[2], j) :
                   s1 # s2
            /\ LinksToOwnRow(Deck, p[1], j)
            /\ LinksToOwnRow(Deck, p[2], j)

\* C2: for two distinct rows with the same key value and a non-skipped
\* metric, two distinct detail slides are built, and each row's summary cell,
\* when its display text is not empty, links to the slide built for its own
\* row.
C2_KeyedByRowIndex ==
    Completed =>
        \A p \in SameKeyRows, j \in Metrics \ SkipSet :
            /\ \E s1 \in SlidesOfCell(Deck, p[1], j), s2 \in SlidesOfCell(Deck, p[2], j) :
                   s1 # s2
            /\ \A i \in {p[1], p[2]} :
                   Cell(Deck, i, j).text # <<>> => LinksToOwnRow(Deck, i, j)

\* rows 1 and 2 hold the same key: their cells of metric 2 link to two
\* different slides that have the same title
C2_Witness ==
    /\ Completed /\ <<1, 2>> \in SameKeyRows /\ 2 \in Metrics \ SkipSet
    /\ LinksToOwnRow(Deck, 1, 2) /\ LinksToOwnRow(Deck, 2, 2)
    /\ Cell(Deck, 1, 2).hlinks[1].target # Cell(Deck, 2, 2).hlinks[1].target
    /\ Deck.slides[Cell(Deck, 1, 2).hlinks[1].target].title =
           Deck.slides[Cell(Deck, 2, 2).hlinks[1].target].title

\* C3: a run that starts from an empty presentation saves 1 + R * M slides,
\* R the detected data rows and M the metric columns not in the skip set; the
\* summary slide is the first, every other slide is a detail slide, and every
\* non-skipped (row, metric) pair has exactly one, blank cell or not.
C3_SlideCount ==
    (Completed /\ inp.pptx_in = 0) =>
        /\ Len(Deck.slides) =
               1 + Len(RegionOf(inp).data_rows)
                     * Cardinality((1..(Len(RegionOf(inp).headers) - 1)) \ SkipSet)
        /\ run.summary_slide = 1 /\ Deck.slides[1].kind = "summary"
        /\ DetailSlides(Deck) = 2..Len(Deck.slides)
        /\ \A i \in 1..Len(RegionOf(inp).data_rows),
              j \in 1..(Len(RegionOf(inp).headers) - 1) :
               Cardinality(SlidesOfCell(Deck, i, j)) = IF j \in SkipSet THEN 0 ELSE 1

\* two rows, two metrics, the second skipped, cell (1, 1) without a value:
\* three slides, one of them the detail slide of the blank cell
C3_Witness ==
    /\ Completed /\ inp.pptx_in = 0
    /\ Len(run.summary) = 2 /\ Len(run.headers) = 3 /\ SkipSet = {2}
    /\ Cell(Deck, 1, 1).text = <<>> /\ Cell(Deck, 1, 1).hlinks = <<>>
    /\ Len(Deck.slides) = 3
    /\ \E s \in SlidesOfCell(Deck, 1, 1) : Deck.slides[s].value_text = EvaluatedPrefix

\* what a reader sees of a detail slide
SlideContent(deck, s) ==
    [title |-> deck.slides[s].title, formula_text |-> deck.slides[s].formula_text,
     value_text |-> deck.slides[s].value_text, snippet |-> deck.slides[s].snippet,
     home |-> [k \in 1..Len(deck.slides[s].home) |-> deck.slides[deck.slides[s].home[k]].kind],
     i |-> deck.slides[s].i, metric |-> deck.slides[s].metric]

\* the links of the run of cell (i, j): the tooltip and the slide it opens
LinkContent(deck, i, j) ==
    [k \in 1..Len(Cell(deck, i, j).hlinks) |->
        [tooltip |-> Cell(deck, i, j).hlinks[k].tooltip,
         slide |-> SlideContent(deck, Cell(deck, i, j).hlinks[k].target)]]

\* the overlays of cell (i, j): the rectangle and the slide it opens
OverlayContent(deck, i, j) ==
    {[x |-> deck.overlays[k].x, y |-> deck.overlays[k].y, w |-> deck.overlays[k].w,
      h |-> deck.overlays[k].h, slide |-> SlideContent(deck, deck.overlays[k].target)] :
        k \in OverlaysOfCell(deck, i, j)}

\* C4: a summary cell of a skipped column shows its formatted value, as it
\* does with an empty skip set, and has no detail slide, no link and no
\* overlay; a cell of any other column shows the same text and has the same
\* detail slide, link and overlay as with an empty skip set.
C4_SkipFrame ==
    Completed =>
        /\ \A i \in Rows, j \in Metrics \cap SkipSet :
               /\ Cell(Deck, i, j).text =
                      FormatNumber(run.summary[i].cells[run.headers[j + 1]].value,
                                   inp.round_digits)
               /\ Cell(Deck, i, j).text = Cell(RefDeck, i, j).text
               /\ Cell(Deck, i, j).hlinks = <<>>
               /\ SlidesOfCell(Deck, i, j) = {}
               /\ OverlaysOfCell(Deck, i, j) = {}
        /\ \A i \in Rows, j \in Metrics \ SkipSet :
               /\ Cell(Deck, i, j).text = Cell(RefDeck, i, j).text
               /\ LinkContent(Deck, i, j) = LinkContent(RefDeck, i, j)
               /\ OverlayContent(Deck, i, j) = OverlayContent(RefDeck, i, j)
               /\ {SlideContent(Deck, s) : s \in SlidesOfCell(Deck, i, j)} =
                      {SlideContent(RefDeck, s) : s \in SlidesOfCell(RefDeck, i, j)}
        /\ \A i \in 0..Len(run.summary) :
               Cell(Deck, i, 0) = Cell(RefDeck, i, 0)

\* column 2 of 2 is skipped in overlay mode: cell (1, 2) shows its value and
\* has no link, slide or overlay, while without the skip it has all three;
\* cell (1, 1) is linked and overlaid
C4_Witness ==
    /\ Completed /\ inp.link_mode = "overlay"
    /\ Len(run.summary) = 2 /\ Len(run.headers) = 3 /\ SkipSet = {2}
    /\ Cell(Deck, 1, 2).text # <<>> /\ Cell(Deck, 1, 2).hlinks = <<>>
    /\ SlidesOfCell(Deck, 1, 2) = {} /\ OverlaysOfCell(Deck, 1, 2) = {}
    /\ Cell(RefDeck, 1, 2).hlinks # <<>> /\ OverlaysOfCell(RefDeck, 1, 2) # {}
    /\ SlidesOfCell(RefDeck, 1, 2) # {}
    /\ LinksToOwnRow(Deck, 1, 1) /\ OverlaysOfCell(Deck, 1, 1) # {}

\* the summary entry a detail slide was built from
EntryOf(sl) == run.summary[sl.i].cells[sl.metric]

\* the table a detail slide's entry refers to
TableOf(sl) ==
    DfRaw(inp.tables, CellTableName(EntryOf(sl), run.default_table_name),
          run.default_table_name)

\* the filter key the entry's formula yields for the slide's summary row
SlideFilterKey(sl) ==
    ExtractFilterKey(EntryOf(sl).formula,
                     CellTableName(EntryOf(sl), run.default_table_name),
                     inp.ws, run.data_rows[sl.i], inp.start_col)

\* the value the key cell of the slide's summary row holds in the sheet
KeyCellValue(sl) == CellValue(inp.ws, run.data_rows[sl.i], inp.start_col)

\* the positions, in table order, of the records whose column C holds v
RecordsWhere(df, C, v) == SortedSeq({k \in 1..Len(df.rows) : df.rows[k][C] = v})

\* the records at the positions index projected on columns
Projected(df, index, columns) ==
    [n \in 1..Len(index) |-> [k \in 1..Len(columns) |-> df.rows[index[n]][columns[k]]]]

\* C9: when the formula of a summary cell yields a filter column C of the
\* referenced table, the rows of the cell's detail view are the records of
\* that table, in table order, whose column C holds the value that the key
\* cell of the summary row holds in the sheet; with no such record the run
\* still completes and the view has its header row only.
C9_FilteredRows ==
    Completed =>
        \A s \in DetailSlides(Deck) :
            (/\ SlideFilterKey(Deck.slides[s]).col # None
             /\ SlideFilterKey(Deck.slides[s]).col \in Range(TableOf(Deck.slides[s]).columns))
            =>
               /\ Deck.slides[s].snippet.index =
                      RecordsWhere(TableOf(Deck.slides[s]), SlideFilterKey(Deck.slides[s]).col,
                                   KeyCellValue(Deck.slides[s]))
               /\ Deck.slides[s].snippet.rows =
                      Projected(TableOf(Deck.slides[s]), Deck.slides[s].snippet.index,
                                Deck.slides[s].snippet.columns)
               /\ Deck.slides[s].snippet.columns # <<>>

\* row 1 has key E and row 2 key Z: the view of cell (1, 1) holds records 1
\* and 3 of T, the view of cell (2, 1) holds its header and no record
C9_Witness ==
    /\ Completed /\ 1 \in Metrics \ SkipSet /\ Len(run.summary) >= 2
    /\ run.summary[1].key = StrVal(<<"E">>) /\ run.summary[2].key = StrVal(<<"Z">>)
    /\ \E s \in SlidesOfCell(Deck, 1, 1) :
           /\ SlideFilterKey(Deck.slides[s]) = [col |-> <<"p">>, value |-> StrVal(<<"E">>)]
           /\ Deck.slides[s].snippet.index = <<1, 3>>
           /\ Len(Deck.slides[s].snippet.rows) = 2
    /\ \E s \in SlidesOfCell(Deck, 2, 1) :
           /\ SlideFilterKey(Deck.slides[s]) = [col |-> <<"p">>, value |-> StrVal(<<"Z">>)]
           /\ Deck.slides[s].snippet.rows = <<>>
           /\ Deck.slides[s].snippet.columns = <<<<"p">>, <<"a">>>>

\* the position of the first occurrence of x in seq
FirstIndex(seq, x) == Min({k \in 1..Len(seq) : seq[k] = x})

\* [keyHeader] followed by the columns parse_structured_columns returns for
\* the entry's table
Candidates(sl) ==
    <<run.key_header>> \o
        ParseStructuredColumns(EntryOf(sl).formula,
                               CellTableName(EntryOf(sl), run.default_table_name))

\* cols is the first-seen-order deduplicated list of the members of
\* candidates that are in schema
IsRestriction(cols, candidates, schema) ==
    /\ Range(cols) = Range(candidates) \cap Range(schema)
    /\ NoDuplicates(cols)
    /\ \A a, b \in 1..Len(cols) :
           a < b => FirstIndex(candidates, cols[a]) < FirstIndex(candidates, cols[b])

\* C10: the projected columns of a detail view are the first-seen-order
\* deduplicated list [keyHeader] + parsed columns restricted to the table's
\* schema; when that is empty they are [keyHeader] if keyHeader is in the
\* schema, else the full schema; the list has no duplicate and no column
\* that the table does not have.
C10_ProjectedColumns ==
    Completed =>
        \A s \in DetailSlides(Deck) :
            /\ IF Range(Candidates(Deck.slides[s])) \cap
                      Range(TableOf(Deck.slides[s]).columns) # {}
               THEN IsRestriction(Deck.slides[s].snippet.columns, Candidates(Deck.slides[s]),
                                  TableOf(Deck.slides[s]).columns)
               ELSE IF run.key_header \in Range(TableOf(Deck.slides[s]).columns)
               THEN Deck.slides[s].snippet.columns = <<run.key_header>>
               ELSE Deck.slides[s].snippet.columns = TableOf(Deck.slides[s]).columns
            /\ NoDuplicates(Deck.slides[s].snippet.columns)
            /\ Range(Deck.slides[s].snippet.columns) \subseteq
                   Range(TableOf(Deck.slides[s]).columns)

\* key header p and the formula =S(T[a],T[p],$A2) give the columns [p, a]
C10_Witness ==
    /\ Completed /\ run.key_header = <<"p">>
    /\ \E s \in DetailSlides(Deck) :
           /\ Deck.slides[s].formula_text = FormulaText("sumifs", 2, 1)
           /\ Candidates(Deck.slides[s]) = <<<<"p">>, <<"a">>, <<"p">>>>
           /\ Deck.slides[s].snippet.columns = <<<<"p">>, <<"a">>>>

\* the run has ended: it returned out_path or raised to its caller
Ended == pc \in {"returned", "raised"}

\* the fatal preconditions of a run
HasTables == inp.tables # <<>>

HasRegion == RegionOf(inp).headers # <<>> /\ RegionOf(inp).data_rows # <<>>

\* C11: no slide is constructed and no file is saved unless the workbook has
\* a table and the region has a header and a data row; a run without a table
\* raises the error that names the missing table, a run with a table and
\* without a region raises the error that names the region, and neither has
\* built a slide or saved a file when it ends.
C11_FatalPreconditions ==
    /\ (run.slides # <<>> \/ run.saved # <<>>) => (HasTables /\ HasRegion)
    /\ (pc \in {"finally", "raised"} /\ run.wb_values # "unopened" /\ ~HasTables) =>
           /\ run.error \in {"No Excel Table (ListObject) found in this workbook.", "close"}
           /\ run.slides = <<>> /\ run.saved = <<>>
    /\ (pc \in {"finally", "raised"} /\ run.wb_values # "unopened" /\ HasTables /\ ~HasRegion) =>
           /\ run.error \in {"Could not detect headers or data rows; check --summary_start.",
                              "close"}
           /\ run.slides = <<>> /\ run.saved = <<>>
    /\ (pc = "finally" /\ ~(HasTables /\ HasRegion)) => run.error # ""
    /\ (pc = "returned") => (HasTables /\ HasRegion /\ run.error = "")

\* a sheet whose header row is there and whose anchor cell is blank: the run
\* raised the region error after it had read the tables, and built nothing
C11_Witness ==
    /\ pc = "raised" /\ HasTables
    /\ RegionOf(inp).headers # <<>> /\ RegionOf(inp).data_rows = <<>>
    /\ run.error = "Could not detect headers or data rows; check --summary_start."
    /\ run.default_table_name = <<"T">>
    /\ run.slides = <<>> /\ run.saved = <<>> /\ run.wb_values = "closed"

\* C12 as stated: when the run has ended, on any path, no workbook it opened
\* is still open.
C12_HandlesClosed ==
    Ended => (run.wb_formula # "open" /\ run.wb_values # "open")

\* the template without its space tokens
NoSpaces(tpl) == SelectSeq(tpl, LAMBDA t : t # <<" ">>)

IsColumnToken(t) == Len(t) = 4 /\ t[1] = "T" /\ t[2] = "["

\* the three forms at token k of a template without spaces
FormAt(form, ts, k) ==
    /\ k + 2 <= Len(ts)
    /\ CASE form = 1 -> /\ ts[k + 1] = <<"=">>
                        /\ \/ IsColumnToken(ts[k]) /\ ts[k + 2] = AnchorToken
                           \/ ts[k] = AnchorToken /\ IsColumnToken(ts[k + 2])
         [] form = 2 -> IsColumnToken(ts[k]) /\ ts[k + 1] = <<",">> /\ ts[k + 2] = AnchorToken
         [] form = 3 -> ts[k] = AnchorToken /\ ts[k + 1] = <<",">> /\ IsColumnToken(ts[k + 2])

FormPlaces(form, ts) == {k \in 1..Len(ts) : FormAt(form, ts, k)}

\* the column named at the leftmost place of a form
FormColumn(form, ts) ==
    LET k == Min(FormPlaces(form, ts))
    IN  IF IsColumnToken(ts[k]) THEN <<ts[k][3]>> ELSE <<ts[k + 2][3]>>

\* the earliest form that occurs, 0 when none does
EarliestForm(ts) ==
    IF FormPlaces(1, ts) # {} THEN 1
    ELSE IF FormPlaces(2, ts) # {} THEN 2
    ELSE IF FormPlaces(3, ts) # {} THEN 3
    ELSE 0

\* C13: on the space-stripped formula the equality form decides the filter
\* column if it occurs anywhere, else the function-argument form, else the
\* reversed form, each at its leftmost occurrence; the value is the key
\* cell's; a formula with none of the forms, the empty one included, gives
\* (None, None).
C13_FormPrecedence ==
    pc = "ret" /\ call.fn = "extract_filter_key" =>
        \A f \in AnchorForms :
            IF EarliestForm(NoSpaces(call.template)) = 0
            THEN call.result[f] = NoFilterKey
            ELSE call.result[f] =
                    [col |-> FormColumn(EarliestForm(NoSpaces(call.template)),
                                        NoSpaces(call.template)),
                     value |-> call.sht[<<call.row_idx, call.key_col_idx>>].value]

\* T[p],A12=T[a] has the function-argument form on p first and the equality
\* form on a after it: the equality form decided
C13_Witness ==
    /\ pc = "ret" /\ call.fn = "extract_filter_key"
    /\ call.template = <<<<"T", "[", "p", "]">>, <<",">>, AnchorToken, <<"=">>,
                         <<"T", "[", "a", "]">>>>
    /\ \A f \in AnchorForms : call.result[f] = [col |-> <<"a">>, value |-> NumVal(7)]

\* ---------------------------------------------------------------------
\* guess_key_col on tables of a few columns
\* ---------------------------------------------------------------------

MaxGuessCols == 3

\* my subsystems
NameContaining == <<"m", "y", " ", "s", "u", "b", "s", "y", "s", "t", "e", "m", "s">>

\* subsystem
NameSynonym == <<"s", "u", "b", "s", "y", "s", "t", "e", "m">>

\* " Sub System " with blanks around it
NamePadded == <<" ", "S", "u", "b", " ", "S", "y", "s", "t", "e", "m", " ">>

\* sub\Wsystem: a backslash and a W between the two words
NameBackslashW == <<"s", "u", "b", "\\", "W", "s", "y", "s", "t", "e", "m">>

GuessNames == {<<"i", "d">>, <<"p">>, NameContaining, NameSynonym, NamePadded, NameBackslashW}

GuessPreferred == {<<"p">>, <<"k", "e", "y">>}

\* df_raw.columns: distinct names
GuessColumns ==
    {cols \in UNION {[1..n -> GuessNames] : n \in 1..MaxGuessCols} : NoDuplicates(cols)}

InitGuess ==
    /\ pc = "call"
    /\ \E cols \in GuessColumns, pref \in GuessPreferred :
           call = [fn |-> "guess_key_col", df_raw |-> [columns |-> cols, rows |-> <<>>],
                   preferred_name |-> pref, result |-> None]
    /\ inp = Unused /\ run = Unused /\ ref = Unused

CallGuessKeyCol ==
    /\ pc = "call"
    /\ call.fn = "guess_key_col"
    /\ call' = [call EXCEPT !.result = GuessKeyCol(call.df_raw, call.preferred_name)]
    /\ pc' = "ret"
    /\ UNCHANGED <<inp, run, ref>>

NextGuess == CallGuessKeyCol

SpecGuess == InitGuess /\ [][NextGuess]_vars

\* a name lower-cased and trimmed
TrimmedLower(nm) == Lower(Strip(nm))

IsSynonym(nm) == TrimmedLower(nm) \in TargetNorms

HasSubAndSystem(nm) ==
    /\ Contains(TrimmedLower(nm), <<"s", "u", "b">>)
    /\ Contains(TrimmedLower(nm), <<"s", "y", "s", "t", "e", "m">>)

\* C14 as stated: the result is a column of the table, chosen by strict
\* priority: the preferred name if it is a column; else a column whose
\* lower-cased, trimmed name is a synonym; else a column whose name contains
\* "sub" and "system"; else the first column.
C14_StrictPriority ==
    pc = "ret" /\ call.fn = "guess_key_col" =>
        /\ call.result \in Range(call.df_raw.columns)
        /\ IF call.preferred_name \in Range(call.df_raw.columns)
              THEN call.result = call.preferred_name
           ELSE IF \E nm \in Range(call.df_raw.columns) : IsSynonym(nm)
              THEN IsSynonym(call.result)
           ELSE IF \E nm \in Range(call.df_raw.columns) : HasSubAndSystem(nm)
              THEN HasSubAndSystem(call.result)
           ELSE call.result = call.df_raw.columns[1]

\* ---------------------------------------------------------------------
\* detect_summary_region_from_start on one header row and one key column
\* ---------------------------------------------------------------------

MaxScanCols == 2

MaxHeaderCells == 4

RegionStartRow == 2

RegionStartCols == {1, 2}

HeaderCellValues == {NoneVal, StrVal(<<>>), StrVal(<<"h">>), NumVal(1)}

\* a sheet with the given header cells from start_col on, and n key cells below
RegionSheet(hdr, n, start_col) ==
    [rc \in ({RegionStartRow - 1} \X (start_col..(start_col + MaxHeaderCells - 1)))
              \cup (RegionStartRow..(RegionStartRow + n - 1)) \X {start_col} |->
        IF rc[1] = RegionStartRow - 1
        THEN [EmptyCell EXCEPT !.value = hdr[rc[2] - start_col + 1]]
        ELSE [EmptyCell EXCEPT !.value = StrVal(<<"k">>)]]

InitRegion ==
    /\ pc = "call"
    /\ \E hdr \in [1..MaxHeaderCells -> HeaderCellValues], n \in 0..MaxRows,
          start_col \in RegionStartCols, max_cols \in 1..MaxScanCols :
           call = [fn |-> "detect_summary_region_from_start",
                   ws |-> RegionSheet(hdr, n, start_col),
                   start_row |-> RegionStartRow, start_col |-> start_col,
                   max_cols |-> max_cols, result |-> <<>>]
    /\ inp = Unused /\ run = Unused /\ ref = Unused

CallDetectSummaryRegion ==
    /\ pc = "call"
    /\ call.fn = "detect_summary_region_from_start"
    /\ call' = [call EXCEPT !.result =
                   DetectSummaryRegionFromStart(call.ws, call.start_row, call.start_col,
                                                call.max_cols)]
    /\ pc' = "ret"
    /\ UNCHANGED <<inp, run, ref>>

NextRegion == CallDetectSummaryRegion

SpecRegion == InitRegion /\ [][NextRegion]_vars

\* the number of cells before the first blank one on the row, from start_col on
NonBlankPrefix(ws, hdr_row, start_col) ==
    Min({k \in 0..MaxHeaderCells : IsBlank(CellValue(ws, hdr_row, start_col + k))})

\* C15 as stated: the header list never has more than max_cols entries, and
\* it is exactly the non-blank prefix of the header row when that prefix is
\* shorter than max_cols.
C15_HeaderBound ==
    pc = "ret" /\ call.fn = "detect_summary_region_from_start" =>
        /\ Len(call.result.headers) <= call.max_cols
        /\ NonBlankPrefix(call.ws, call.start_row - 1, call.start_col) < call.max_cols =>
              call.result.headers =
                 [k \in 1..NonBlankPrefix(call.ws, call.start_row - 1, call.start_col) |->
                     PyStr(CellValue(call.ws, call.start_row - 1, call.start_col + k - 1))]

\* the filter column of a detail slide's entry is not a column of its table
ForeignFilterColumn(sl) ==
    /\ SlideFilterKey(sl).col # None
    /\ SlideFilterKey(sl).col \notin Range(TableOf(sl).columns)

\* C16: a summary cell whose resolved filter column is not a column of its
\* table does not abort the run: its detail slide is built, and its rows are
\* the records that match the key cell's value on the column guess_key_col
\* returns (possibly none), projected on the slide's columns; every other
\* cell has the same detail slide whether the failing cells are resolved in
\* the run or skipped.
C16_RetryOnce ==
    /\ (pc = "finally" /\ HasTables /\ HasRegion) => (run.error = "" /\ Len(run.saved) = 1)
    /\ Completed =>
        /\ \A i \in Rows, j \in Metrics \ SkipSet : Cardinality(SlidesOfCell(Deck, i, j)) = 1
        /\ \A s \in DetailSlides(Deck) :
               ForeignFilterColumn(Deck.slides[s]) =>
                  /\ Deck.slides[s].snippet.index =
                         RecordsWhere(TableOf(Deck.slides[s]),
                                      GuessKeyCol(TableOf(Deck.slides[s]), run.key_header),
                                      KeyCellValue(Deck.slides[s]))
                  /\ Deck.slides[s].snippet.rows =
                         Projected(TableOf(Deck.slides[s]), Deck.slides[s].snippet.index,
                                   Deck.slides[s].snippet.columns)
        /\ \A s \in DetailSlides(Deck) :
               ~ForeignFilterColumn(Deck.slides[s]) =>
                  \E t \in SlidesOfCell(RefDeck, Deck.slides[s].i, Deck.slides[s].j) :
                      SlideContent(RefDeck, t) = SlideContent(Deck, s)

\* =S(T[a],T[z],$A$2) on row 2 with key E: T has no column z, the slide of
\* cell (1, 2) holds records 1 and 3 of T, found on the key column p; cell
\* (1, 1) has its slide
C16_Witness ==
    /\ Completed /\ SkipSet = {} /\ Len(run.headers) = 3
    /\ \E s \in SlidesOfCell(Deck, 1, 2) :
           /\ SlideFilterKey(Deck.slides[s]).col = <<"z">>
           /\ KeyCellValue(Deck.slides[s]) = StrVal(<<"E">>)
           /\ Deck.slides[s].snippet.index = <<1, 3>>
    /\ \E s \in SlidesOfCell(Deck, 1, 1) : ~ForeignFilterColumn(Deck.slides[s])

\* what each stage of the run leaves behind
TablesRead == run.default_table_name # None

RegionDetected == run.headers # <<>> /\ run.data_rows # <<>>

SummaryCollected == run.summary # <<>> /\ Len(run.summary) = Len(run.data_rows)

AllDetailsBuilt ==
    /\ run.slides # <<>>
    /\ Cardinality({s \in 1..Len(run.slides) : run.slides[s].kind = "detail"}) =
           Len(run.summary) * Cardinality((1..(Len(run.headers) - 1)) \ SkipSet)

SomeLinkWired == \E rc \in DOMAIN run.table.cells : run.table.cells[rc].hlinks # <<>>

AllRowsWritten ==
    /\ run.slides # <<>>
    /\ \A i \in 1..Len(run.summary) : run.table.cells[<<i, 0>>].text # <<>>

GridReadBack == run.col_lefts # <<>> /\ run.row_tops # <<>>

\* the cells that carry a link
LinkedCells ==
    {rc \in DOMAIN run.table.cells : run.table.cells[rc].hlinks # <<>>}

AllOverlaysPlaced ==
    inp.link_mode = "overlay" =>
        {<<run.overlays[k].i, run.overlays[k].j>> : k \in 1..Len(run.overlays)} = LinkedCells

\* C17: the stages of a run form a chain: nothing is collected before the
\* tables are read and the region is detected; no slide exists before the
\* whole summary is collected; no link is wired before every detail slide
\* is built, and none is built afterwards; the grid is read back only after
\* every row is written; no overlay is placed before the grid is read back;
\* the deck is saved at most once, after all overlays are placed, and it is
\* the deck as it is at the end.
C17_StageChain ==
    /\ run.summary # <<>> => (TablesRead /\ RegionDetected)
    /\ run.slides # <<>> => SummaryCollected
    /\ SomeLinkWired => AllDetailsBuilt
    /\ GridReadBack => (AllRowsWritten /\ AllDetailsBuilt)
    /\ run.overlays # <<>> => GridReadBack
    /\ run.saved # <<>> =>
          /\ Len(run.saved) = 1
          /\ GridReadBack /\ AllOverlaysPlaced
          /\ run.saved[1] =
                 [slides |-> run.slides, table |-> run.table, overlays |-> run.overlays]

\* a run in overlay mode over two rows and two metrics has returned: four
\* detail slides, links, the grid read back, four overlays, one saved deck
C17_Witness ==
    /\ Completed /\ inp.link_mode = "overlay" /\ SkipSet = {}
    /\ Len(run.summary) = 2 /\ Len(run.headers) = 3
    /\ AllDetailsBuilt /\ SomeLinkWired /\ GridReadBack
    /\ Cardinality(LinkedCells) >= 3
    /\ Len(run.overlays) = Cardinality(LinkedCells)
    /\ Len(run.saved) = 1

\* the sum of the first n members of a sequence of numbers
RECURSIVE SumFirst(_, _)
SumFirst(seq, n) == IF n = 0 THEN 0 ELSE SumFirst(seq, n - 1) + seq[n]

\* two rectangles share no interior point
Disjoint(a, b) ==
    \/ a.x + a.w <= b.x \/ b.x + b.w <= a.x
    \/ a.y + a.h <= b.y \/ b.y + b.h <= a.y

Inside(o, table) ==
    /\ table.left <= o.x /\ o.x + o.w <= table.left + table.width
    /\ table.top <= o.y /\ o.y + o.h <= table.top + table.height

\* C18: the overlay of summary cell (i, j) has left = table left + the
\* widths of columns 0..j-1, top = table top + the heights of rows 0..i-1,
\* the width of column j and the height of row i, as the saved table has
\* them; it has a positive area, overlays of distinct cells do not overlap,
\* and every overlay lies inside the table's rectangle.
C18_OverlayGeometry ==
    Completed =>
        /\ \A k \in 1..Len(Deck.overlays) :
               /\ Deck.overlays[k].x =
                      Deck.table.left + SumFirst(Deck.table.col_widths, Deck.overlays[k].j)
               /\ Deck.overlays[k].y =
                      Deck.table.top + SumFirst(Deck.table.row_heights, Deck.overlays[k].i)
               /\ Deck.overlays[k].w = Deck.table.col_widths[Deck.overlays[k].j + 1]
               /\ Deck.overlays[k].h = Deck.table.row_heights[Deck.overlays[k].i + 1]
               /\ Deck.overlays[k].w > 0 /\ Deck.overlays[k].h > 0
               /\ Inside(Deck.overlays[k], Deck.table)
        /\ \A k1, k2 \in 1..Len(Deck.overlays) :
               k1 # k2 =>
                  /\ <<Deck.overlays[k1].i, Deck.overlays[k1].j>> #
                         <<Deck.overlays[k2].i, Deck.overlays[k2].j>>
                  /\ Disjoint(Deck.overlays[k1], Deck.overlays[k2])

\* overlay mode, two rows and two metrics, nothing skipped: cells (1, 1),
\* (1, 2) and (2, 2) have their overlays, side by side and one above the other
C18_Witness ==
    /\ Completed /\ inp.link_mode = "overlay"
    /\ \E k1, k2, k3 \in 1..Len(Deck.overlays) :
           /\ Deck.overlays[k1].i = 1 /\ Deck.overlays[k1].j = 1
           /\ Deck.overlays[k2].i = 1 /\ Deck.overlays[k2].j = 2
           /\ Deck.overlays[k3].i = 2 /\ Deck.overlays[k3].j = 2
           /\ Deck.overlays[k1].x + Deck.overlays[k1].w = Deck.overlays[k2].x
           /\ Deck.overlays[k2].y + Deck.overlays[k2].h = Deck.overlays[k3].y
           /\ Deck.overlays[k1].x > Deck.table.left

\* ---------------------------------------------------------------------
\* extract_filter_key on formulas with cell references around the anchor
\* ---------------------------------------------------------------------

MaxAnchorTokens == 4

\* a digit after the anchor makes another row's address (A12 and 3: A123), a
\* letter before it another column's (A and A12: AA12)
DigitToken == <<"3">>

LetterToken == <<"A">>

AnchorTokens ==
    {<<"=">>, <<",">>, <<"T", "[", "p", "]">>, AnchorToken, DigitToken, LetterToken}

InitAnchor ==
    /\ pc = "call"
    /\ \E tpl \in TokenSeqs(AnchorTokens, MaxAnchorTokens), kv \in FilterKeyValues :
           call = [fn |-> "extract_filter_key", template |-> tpl,
                   table_name |-> FilterTable,
                   sht |-> (<<FilterRow, FilterKeyCol>> :> [value |-> kv]),
                   row_idx |-> FilterRow, key_col_idx |-> FilterKeyCol,
                   result |-> <<>>]
    /\ inp = Unused /\ run = Unused /\ ref = Unused

SpecAnchor == InitAnchor /\ [][NextFilter]_vars

\* the place of the anchor token in a form at token k
AnchorPlace(ts, k) == IF ts[k] = AnchorToken THEN k ELSE k + 2

\* the anchor token at place p is a cell reference of its own: no letter
\* before it and no digit after it
ExactAnchor(ts, p) ==
    /\ p > 1 => ts[p - 1] # LetterToken
    /\ p < Len(ts) => ts[p + 1] # DigitToken

\* the formula compares or passes exactly the anchor cell
UsesAnchorCell(ts) ==
    \E form \in 1..3, k \in 1..Len(ts) :
        FormAt(form, ts, k) /\ ExactAnchor(ts, AnchorPlace(ts, k))

\* C19 as stated: the filter column is not None only if the formula
\* compares or passes exactly the anchor cell; a reference to another cell
\* whose address contains the anchor's text gives (None, None).
C19_ExactAnchorOnly ==
    pc = "ret" /\ call.fn = "extract_filter_key" =>
        \A f \in AnchorForms :
            call.result[f].col # None => UsesAnchorCell(call.template)

\* the worksheet cell under summary-grid cell (i, j)
SheetCell(i, j) == <<run.data_rows[i], inp.start_col + j>>

SheetValue(i, j) == CellValue(inp.ws, SheetCell(i, j)[1], SheetCell(i, j)[2])

\* the formula the worksheet cell itself holds, None without one
SheetFormula(i, j) == FormulaAt(inp.ws, SheetCell(i, j)[1], SheetCell(i, j)[2])

\* C20 as stated: summary-grid cell (i, j) displays the formatted value of
\* the worksheet cell at (data row i, start column + j), and the detail
\* slide it links to shows the value of that worksheet cell and, when the
\* cell holds a formula, that formula; two metric headers may have the same
\* text.
C20_CellShowsOwnSheetCell ==
    Completed =>
        \A i \in Rows, j \in Metrics :
            /\ Cell(Deck, i, j).text = FormatNumber(SheetValue(i, j), inp.round_digits)
            /\ \A k \in 1..Len(Cell(Deck, i, j).hlinks) :
                   /\ Deck.slides[Cell(Deck, i, j).hlinks[k].target].value_text =
                          EvaluatedPrefix \o FormatNumber(SheetValue(i, j), inp.round_digits)
                   /\ ~Falsy(SheetFormula(i, j)) =>
                          Deck.slides[Cell(Deck, i, j).hlinks[k].target].formula_text =
                              SheetFormula(i, j)

\* ---------------------------------------------------------------------
\* the provenance of one summary cell in the two backends
\* ---------------------------------------------------------------------

\* extract_filter_key of the xlwings backend: the equality pattern alone
XwExtractFilterKey(formula, table_name, sht, row_idx, key_col_idx) ==
    IF Falsy(formula) THEN NoFilterKey
    ELSE FilterKeyOf(Search("pat_eq", Remove(formula, " "), table_name,
                            GetColumnLetter(key_col_idx), row_idx),
                     CellValue(sht, row_idx, key_col_idx))

\* cols_used of the xlwings backend: [key_header] + parsed columns restricted
\* to the table's columns, a column named twice kept twice; when nothing is
\* left, [key_header] or the whole schema
XwColsUsed(key_header, formula, tbl_name, df_raw) ==
    IF \E c \in Range(<<key_header>> \o ParseStructuredColumns(formula, tbl_name)) :
           c \in Range(df_raw.columns)
    THEN SelectSeq(<<key_header>> \o ParseStructuredColumns(formula, tbl_name),
                   LAMBDA c : c \in Range(df_raw.columns))
    ELSE IF key_header \in Range(df_raw.columns) THEN <<key_header>>
    ELSE df_raw.columns

\* colname, key_val and cols_used of one cell in build_ppt_xlwings
XwResolve(df_raw, formula, fk, key, key_header) ==
    [colname |-> FilterColumn(fk, df_raw, key_header),
     key_val |-> FilterValue(fk, key),
     cols_used |-> XwColsUsed(key_header, formula, df_raw.name, df_raw)]

XwProvenance(formula, key, row_idx, df_raw, key_header, sht, start_col_idx) ==
    XwResolve(df_raw, formula,
              XwExtractFilterKey(formula, df_raw.name, sht, row_idx, start_col_idx),
              key, key_header)

\* the same three of one cell in build_ppt_openpyxl
OpxResolved(prov) ==
    [colname |-> prov.colname, key_val |-> prov.key_val, cols_used |-> prov.snippet.columns]

\* the entry the collection pass stores for a cell with formula f
EntryWithFormula(f, row_idx, c_idx, value) ==
    [address |-> <<row_idx, c_idx>>, formula |-> f, value |-> value,
     table |-> IF ExtractTableNames(f) = <<>> THEN None ELSE ExtractTableNames(f)[1]]

OpxProvenance(formula, key, row_idx, df_raw, key_header, ws_values, start_col_idx) ==
    OpxResolved(Provenance(EntryWithFormula(formula, row_idx, start_col_idx + 1, NoneVal),
                           key, row_idx, <<df_raw>>, df_raw.name, key_header, ws_values,
                           start_col_idx))

MaxBackendTokens == 4

BackendTokens ==
    {<<"=">>, <<",">>, <<"T", "[", "p", "]">>, <<"T", "[", "a", "]">>, AnchorToken}

BackendKeyHeaders == {<<"p">>, <<"a">>, <<"k">>}

BackendKeys == {StrVal(<<"E">>), StrVal(<<"Z">>)}

Unresolved == <<>>

\* one workbook with the single table T; the cell's formula is "=" and the
\* tokens, the anchor written $A12
InitBackends ==
    /\ pc = "call"
    /\ \E tpl \in TokenSeqs(BackendTokens, MaxBackendTokens), kh \in BackendKeyHeaders,
          key \in BackendKeys :
           call = [fn |-> "provenance",
                   formula |-> <<"=">> \o Instantiate(tpl, <<TRUE, FALSE>>, FilterRow,
                                                       FilterKeyCol),
                   df_raw |-> TableT, key_header |-> kh,
                   sht |-> (<<FilterRow, FilterKeyCol>> :> [value |-> key]),
                   row_idx |-> FilterRow, key_col_idx |-> FilterKeyCol,
                   openpyxl |-> Unresolved, xlwings |-> Unresolved]
    /\ inp = Unused /\ run = Unused /\ ref = Unused

ResolveOpenpyxl ==
    /\ pc = "call" /\ call.fn = "provenance" /\ call.openpyxl = Unresolved
    /\ call' = [call EXCEPT !.openpyxl =
                   OpxProvenance(call.formula, CellValue(call.sht, call.row_idx, call.key_col_idx),
                                 call.row_idx, call.df_raw, call.key_header, call.sht,
                                 call.key_col_idx)]
    /\ pc' = IF call.xlwings = Unresolved THEN "call" ELSE "ret"
    /\ UNCHANGED <<inp, run, ref>>

ResolveXlwings ==
    /\ pc = "call" /\ call.fn = "provenance" /\ call.xlwings = Unresolved
    /\ call' = [call EXCEPT !.xlwings =
                   XwProvenance(call.formula, CellValue(call.sht, call.row_idx, call.key_col_idx),
                                call.row_idx, call.df_raw, call.key_header, call.sht,
                                call.key_col_idx)]
    /\ pc' = IF call.openpyxl = Unresolved THEN "call" ELSE "ret"
    /\ UNCHANGED <<inp, run, ref>>

NextBackends == ResolveOpenpyxl \/ ResolveXlwings

SpecBackends == InitBackends /\ [][NextBackends]_vars

\* C21 as stated: for the same cell of the same sheet with a single table
\* the two backends obtain the same filter column, the same filter value
\* and the same projected column list.
C21_SameProvenance ==
    pc = "ret" /\ call.fn = "provenance" => call.xlwings = call.openpyxl

\* a character a table name is made of ([A-Za-z0-9_])
TableNameChar(ch) ==
    ch \in Range(Letters) \cup Range(LowerLetters) \cup Range(DigitChars) \cup {"_"}

\* the places where a structured reference to exactly the table begins: the
\* table's name and "[", with no table-name character before it
ExactReferences(s, table_name) ==
    {p \in AllOccurrences(s, table_name \o <<"[">>) : p = 1 \/ ~TableNameChar(s[p - 1])}

\* C22 as stated: every column parse_structured_columns returns is named by
\* a structured reference whose table name is exactly T; a reference to a
\* table whose name ends with T (NT[a] for T) contributes no column.
C22_ExactTableOnly ==
    pc = "ret" /\ call.fn = "parse_structured_columns" =>
        \A k \in 1..Len(call.result) :
            \E p \in ExactReferences(call.formula, call.table_name) :
                call.result[k] =
                    Remove(EscapedName(call.formula, p + Len(call.table_name) + 1), "'")

====
